---- MODULE Spec2Model ----
(***************************************************************************)
(* Model of the auto-blogger backend: the content pipeline                 *)
(* (PipelineService.executePipeline), the store it writes to               *)
(* (SupabaseService) and the generative-AI service it calls                *)
(* (GeminiService).                                                        *)
(*                                                                         *)
(* One step of a run is the resolution of one awaited call together with   *)
(* the synchronous code that follows it up to the next await.  The outcome *)
(* of every awaited call is chosen by the environment: a store call or an  *)
(* AI call may fail, as long as the environment has failures left to       *)
(* inject (faultsLeft).                                                    *)
(***************************************************************************)
EXTENDS Integers, Sequences, FiniteSets, TLC

\* ------------------------------------------------------------------ bounds

\* number of failures the environment may inject over one behaviour
MaxFaults == 2
\* number of publish requests over one behaviour
MaxPublishes == 1
\* the runs whose state the model carries
Runs == {1, 2}

\* ------------------------------------------------------------------ values

Topics == {"T"}

StageNames ==
    <<"category", "seoResearch", "writing", "humanizing",
      "visualGeneration", "interactive", "finalReview">>

\* position of a stage in the pipeline; "init" (slug, record creation) is
\* before every stage and "terminal" (status write, revert) after every stage
StageIdx(s) ==
    CASE s = "init" -> 0
      [] s = "category" -> 1
      [] s = "seoResearch" -> 2
      [] s = "writing" -> 3
      [] s = "humanizing" -> 4
      [] s = "visualGeneration" -> 5
      [] s = "interactive" -> 6
      [] s = "finalReview" -> 7
      [] s = "terminal" -> 8

\* PipelineResult.stages as executePipeline initialises it
InitialStages ==
    [seoResearch |-> FALSE, writing |-> FALSE, humanizing |-> FALSE,
     visualGeneration |-> FALSE, interactive |-> FALSE, finalReview |-> FALSE]

\* `null as unknown as Article`: the article of a result before createArticle
NullArticle ==
    [id |-> 0, topic |-> "", slug |-> <<>>, title |-> <<>>,
     content_markdown |-> <<>>, meta_description |-> <<>>, keywords |-> <<>>,
     h2_structure |-> <<>>, status |-> "none", thumbnail_url |-> <<>>,
     category_id |-> 0, published_at |-> 0]

InitialResult ==
    [article |-> NullArticle, stages |-> InitialStages, errors |-> <<>>]

\* the fallback of the SEO research stage
FallbackSeo(topic) ==
    [keywords |-> <<topic>>,
     h2Structure |-> <<[h2 |-> "Introduction", h3s |-> <<>>],
                       [h2 |-> "Main Content", h3s |-> <<>>],
                       [h2 |-> "Conclusion", h3s |-> <<>>]>>,
     metaDescription |-> <<"Learn about", topic>>]

NoSeo == [keywords |-> <<>>, h2Structure |-> <<>>, metaDescription |-> <<>>]

NoContent == [title |-> <<>>, content |-> <<>>]

NoComponent == [type |-> "", config |-> ""]

\* ------------------------------------------------------------------- text

(***************************************************************************)
(* A document is a sequence of tokens.  A token is one character of the    *)
(* text, except that a placeholder "[IMAGE_PROMPT_k]" is the token "Pk",   *)
(* "--" is one token, the word "Image:" is one token and the link part     *)
(* "[alt](url)" of an image embed is the token "Ek"; a code fence is the   *)
(* token "FENCE" ("FENCE-markdown" with its language tag).  "-" is a       *)
(* hyphen on its own.  "PO" is the text "[IMAGE_PROMPT_" with no number    *)
(* after it and "2]" the text "2]": next to each other they are the        *)
(* placeholder "P2".                                                       *)
(***************************************************************************)

Placeholders == {"P1", "P2", "P3", "P4"}

\* the digits of a placeholder token
PlaceholderNum(t) ==
    CASE t = "P1" -> "1" [] t = "P2" -> "2" [] t = "P3" -> "3" [] t = "P4" -> "4"

\* the tokens of a text put together from pieces: "[IMAGE_PROMPT_" followed
\* by "2]" reads as a placeholder
RECURSIVE Join(_)
Join(c) ==
    IF Len(c) < 2 THEN c
    ELSE IF c[1] = "PO" /\ c[2] = "2]"
         THEN <<"P2">> \o Join(SubSeq(c, 3, Len(c)))
         ELSE <<c[1]>> \o Join(Tail(c))

\* \s
WS == {"SP", "NL"}

\* [A-Z]
Upper == {"A", "B", "Image:"}

Min(a, b) == IF a < b THEN a ELSE b

\* the first position >= j of c that holds no white space (Len(c) + 1 if none)
RECURSIVE SkipWs(_, _)
SkipWs(c, j) ==
    IF j <= Len(c) /\ c[j] \in WS THEN SkipWs(c, j + 1) ELSE j

\* the first position >= j of c that holds a token of stop (Len(c) + 1 if none)
RECURSIVE RunEnd(_, _, _)
RunEnd(c, j, stop) ==
    IF j <= Len(c) /\ c[j] \notin stop THEN RunEnd(c, j + 1, stop) ELSE j

\* c[a .. b-1]
Slice(c, a, b) == IF b <= a THEN <<>> ELSE SubSeq(c, a, b - 1)

\* String.prototype.trim on a document
RECURSIVE TrimLeft(_)
TrimLeft(c) ==
    IF c # <<>> /\ Head(c) \in WS THEN TrimLeft(Tail(c)) ELSE c

RECURSIVE TrimRight(_)
TrimRight(c) ==
    IF c # <<>> /\ c[Len(c)] \in WS THEN TrimRight(SubSeq(c, 1, Len(c) - 1)) ELSE c

Trim(c) == TrimRight(TrimLeft(c))

NoMatch == [ok |-> FALSE, from |-> 0, end |-> 0]

\* the match of  \s*:\s*[^stop]+  at position p of c: the captured run is
\* c[from .. end-1].  Both \s* are greedy; the second gives white space back
\* until the run that follows it is not empty.
ColonMatch(c, p, stop) ==
    LET j == SkipWs(c, p)
    IN  IF j > Len(c) \/ c[j] # ":" THEN NoMatch
        ELSE LET w == SkipWs(c, j + 1)
                 starts == {s \in (j + 1)..Min(w, Len(c)) : c[s] \notin stop}
             IN  IF starts = {} THEN NoMatch
                 ELSE LET s == CHOOSE x \in starts : \A y \in starts : y <= x
                      IN  [ok |-> TRUE, from |-> s, end |-> RunEnd(c, s, stop)]

\* c holds "<!--" at position j
CommentOpenAt(c, j) ==
    /\ j + 2 <= Len(c)
    /\ c[j] = "<" /\ c[j + 1] = "!" /\ c[j + 2] = "--"

\* c holds "-->" at position j
CommentCloseAt(c, j) ==
    /\ j + 1 <= Len(c)
    /\ c[j] = "--" /\ c[j + 1] = ">"

\* the first position >= j of c that holds "-->" (0 if none)
RECURSIVE FindClose(_, _)
FindClose(c, j) ==
    IF j > Len(c) THEN 0
    ELSE IF CommentCloseAt(c, j) THEN j ELSE FindClose(c, j + 1)

\* the match of  \s*<!--[\s\S]*?-->  at position p of c
CommentMatch(c, p) ==
    LET j == SkipWs(c, p)
    IN  IF ~CommentOpenAt(c, j) THEN NoMatch
        ELSE LET m == FindClose(c, j + 3)
             IN  IF m = 0 THEN NoMatch
                 ELSE [ok |-> TRUE, from |-> j + 3, end |-> m + 2]

\* the match of  \s*<!--\s*Image:\s*([^-]+?)\s*-->  at position p of c: the
\* captured group is c[from .. end-1] trimmed, and the match ends at `last`
ImageCommentMatch(c, p) ==
    LET j == SkipWs(c, p)
    IN  IF ~CommentOpenAt(c, j) THEN NoMatch @@ [last |-> 0]
        ELSE LET k == SkipWs(c, j + 3)
             IN  IF k > Len(c) \/ c[k] # "Image:" THEN NoMatch @@ [last |-> 0]
                 ELSE LET g == SkipWs(c, k + 1)
                          e == RunEnd(c, g, {"--", "-"})
                      IN  \* the group is not empty and "-->" follows it
                          IF g < e /\ CommentCloseAt(c, e)
                          THEN [ok |-> TRUE, from |-> g, end |-> e, last |-> e + 2]
                          ELSE NoMatch @@ [last |-> 0]

\* the match of  \s*(?=[A-Z])  at position p of c
UpperMatch(c, p) ==
    LET j == SkipWs(c, p)
    IN  IF j <= Len(c) /\ c[j] \in Upper
        THEN [ok |-> TRUE, from |-> p, end |-> j]
        ELSE NoMatch

\* the end (exclusive) of the match of the optional group
\*   (?:\s*:\s*[^stop]+|\s*<!--[\s\S]*?-->|\s*(?=[A-Z]))?
\* at position p of c
TrailEnd(c, p, stop) ==
    IF ColonMatch(c, p, stop).ok THEN ColonMatch(c, p, stop).end
    ELSE IF CommentMatch(c, p).ok THEN CommentMatch(c, p).end
    ELSE IF UpperMatch(c, p).ok THEN UpperMatch(c, p).end
    ELSE p

\* the heading the last match of  ##\s+([^\n]+)  in c holds, with its
\* leading "##" and white space removed; `best` is the heading of the last
\* match before position q
RECURSIVE LastH2(_, _, _)
LastH2(c, q, best) ==
    IF q + 2 > Len(c) THEN best
    ELSE IF c[q] = "#" /\ c[q + 1] = "#" /\ c[q + 2] \in WS
         THEN LET w == SkipWs(c, q + 2)
                  starts == {s \in (q + 3)..Min(w, Len(c)) : c[s] # "NL"}
              IN  IF starts = {} THEN LastH2(c, q + 1, best)
                  ELSE LET s == CHOOSE x \in starts : \A y \in starts : y <= x
                           e == RunEnd(c, s, {"NL"})
                       IN  LastH2(c, e, [found |-> TRUE,
                                         h2 |-> TrimLeft(Slice(c, q + 2, e))])
         ELSE LastH2(c, q + 1, best)

\* the prompt of a placeholder at position p of c that carries no prompt of
\* its own: the nearest heading before it, or the numbered fallback
HeadingPrompt(c, p) ==
    LET h == LastH2(Slice(c, 1, p), 1, [found |-> FALSE, h2 |-> <<>>])
    IN  IF h.found THEN <<"Illustration for: ">> \o h.h2
        ELSE <<"Blog section illustration ", PlaceholderNum(c[p])>>

\* GeminiService.extractImagePrompts, from position p of c on
RECURSIVE ExtractFrom(_, _)
ExtractFrom(c, p) ==
    IF p > Len(c) THEN <<>>
    ELSE IF c[p] \notin Placeholders THEN ExtractFrom(c, p + 1)
    ELSE LET colon == ColonMatch(c, p + 1, {"NL", "<"})
             comment == ImageCommentMatch(c, p + 1)
             g2 == IF colon.ok THEN Trim(Slice(c, colon.from, colon.end))
                   ELSE <<>>
             g3 == IF ~colon.ok /\ comment.ok
                   THEN Trim(Slice(c, comment.from, comment.end))
                   ELSE <<>>
             explicit == IF g3 # <<>> THEN g3 ELSE g2
             next == IF colon.ok THEN colon.end
                     ELSE IF comment.ok THEN comment.last
                     ELSE p + 1
         IN  <<[prompt |-> IF explicit # <<>> THEN explicit
                           ELSE HeadingPrompt(c, p),
                placeholder |-> c[p]]>>
             \o ExtractFrom(c, next)

extractImagePrompts(content) == ExtractFrom(content, 1)

\* the markdown of an image embed: "\n\n![alt](url)\n\n"
ImageMarkdown(i) ==
    <<"NL", "NL", "!",
      CASE i = 1 -> "E1" [] i = 2 -> "E2" [] i = 3 -> "E3" [] OTHER -> "E4",
      "NL", "NL">>

\* content.replace(fullPlaceholderRegex, imageMarkdown), from position p on:
\* every occurrence of the placeholder, with what trails it, becomes md
RECURSIVE ReplaceFrom(_, _, _, _)
ReplaceFrom(c, p, placeholder, md) ==
    IF p > Len(c) THEN <<>>
    ELSE IF c[p] = placeholder
         THEN md \o ReplaceFrom(c, TrailEnd(c, p + 1, {"NL", "!"}), placeholder, md)
         ELSE <<c[p]>> \o ReplaceFrom(c, p + 1, placeholder, md)

ReplacePlaceholder(content, placeholder, md) ==
    ReplaceFrom(content, 1, placeholder, md)

\* the final cleanup's replace, from position p on: every placeholder left,
\* with what trails it, is removed
RECURSIVE CleanupFrom(_, _)
CleanupFrom(c, p) ==
    IF p > Len(c) THEN <<>>
    ELSE IF c[p] \in Placeholders
         THEN CleanupFrom(c, TrailEnd(c, p + 1, {"n", "!"}))
         ELSE <<c[p]>> \o CleanupFrom(c, p + 1)

CleanupPlaceholders(content) == Trim(Join(CleanupFrom(content, 1)))

\* the cleaning of an AI response in writeArticle and
\* finalReviewAndRestructure: a leading and a trailing code fence go, then trim
StripFences(response) ==
    LET a == IF response # <<>> /\ Head(response) \in {"FENCE-markdown", "FENCE"}
             THEN IF Len(response) > 1 /\ response[2] = "NL"
                  THEN SubSeq(response, 3, Len(response))
                  ELSE Tail(response)
             ELSE response
        b == IF a # <<>> /\ a[Len(a)] = "FENCE"
             THEN IF Len(a) > 1 /\ a[Len(a) - 1] = "NL"
                  THEN SubSeq(a, 1, Len(a) - 2)
                  ELSE SubSeq(a, 1, Len(a) - 1)
             ELSE a
    IN  Trim(b)

\* the first position >= q of c that starts a line with "#", white space and
\* a text (0 if none): the match of  ^#\s+(.+)$  with flag m
RECURSIVE FindH1(_, _)
FindH1(c, q) ==
    IF q + 2 > Len(c) THEN 0
    ELSE IF /\ (q = 1 \/ c[q - 1] = "NL")
            /\ c[q] = "#" /\ c[q + 1] \in WS
            /\ SkipWs(c, q + 1) <= Len(c)
         THEN q
         ELSE FindH1(c, q + 1)

\* the title writeArticle takes from the content: the first H1, else the topic
TitleOf(content, topic) ==
    LET q == FindH1(content, 1)
    IN  IF q = 0 THEN <<topic>>
        ELSE LET s == SkipWs(content, q + 1)
             IN  Trim(Slice(content, s, RunEnd(content, s, {"NL"})))

\* ------------------------------------------------------------------ state

VARIABLES
    \* the store
    articles,       \* table articles: sequence of rows, id = position
    images,         \* table article_images: sequence of rows, id = position
    components,     \* table article_components: sequence of rows
    categories,     \* table categories: the names of its rows, a row's id
                    \* its position
    clock,          \* the store's notion of time (publish timestamps)
    \* one executePipeline call per run
    pc,             \* the await the run is suspended at
    topicOf,        \* argument topic
    result,         \* the PipelineResult being built
    aiSlug,         \* local aiSlug
    category,       \* locals categorySuggestion / category of stage 0
    seoData,        \* local seoData
    articleContent, \* local articleContent
    imagePrompts,   \* local imagePrompts
    idx,            \* loop variable i of the image loop
    imageRecord,    \* local imageRecord (id of the row created)
    imageUrl,       \* locals thumbUrl / imageUrl: the last upload's URL
    rewritten,      \* locals humanizedContent / reviewedContent
    component,      \* local component of stage 5
    log,            \* what the run has issued: AI calls, store calls, events
    \* the environment
    faultsLeft,     \* failures the environment may still inject
    failures,       \* the awaited calls of each run that failed, in order
    \* the text functions, applied to a document on their own
    textPc,         \* what has been applied last
    docInput,       \* the document they are applied to
    doc,            \* the document as it is now
    extracted,      \* what extractImagePrompts returned for docInput
    substituted,    \* how many of the extracted entries are substituted
    \* AgentService: the scheduler
    agentConfig,    \* table agent_config: its one row
    cronJobs,       \* the CronJob objects created, in order: expression, running
    registry,       \* SchedulerRegistry: the job under JOB_NAME (0: none)
    reconciles,     \* the calls of setupScheduler, in order
    requests,       \* the requests POST /agent/config, in order
    fires,          \* how many times a timer has invoked its callback
    \* AgentService: the runs
    agentRuns,      \* table agent_runs: sequence of rows, id = position
    executions,     \* the calls of executeAgentRun, in order
    triggers,       \* the requests POST /agent/trigger, in order
    \* PipelineController: the stream of events
    listeners,      \* the listeners of 'pipeline.log' on the emitter, in order
    subscriptions,  \* the calls of streamProgress, in order
    published       \* the events emitted so far

storeVars == <<articles, images, components, categories, clock>>
pipelineVars ==
    <<articles, images, components, categories, clock, pc, topicOf, result,
      aiSlug, category, seoData, articleContent, imagePrompts, idx,
      imageRecord, imageUrl, rewritten, component, log, faultsLeft, failures>>
textVars == <<textPc, docInput, doc, extracted, substituted>>
runVars == <<agentRuns, executions, triggers>>
agentVars ==
    <<agentConfig, cronJobs, registry, reconciles, requests, fires, agentRuns,
      executions, triggers>>
\* what a step of the pipeline leaves alone
busVars == <<listeners, subscriptions, published>>
otherVars == <<textVars, agentVars, busVars>>
vars == <<pipelineVars, textVars, agentVars, busVars>>

\* no document is being worked on
TextIdle ==
    /\ textPc = "idle"
    /\ docInput = <<>>
    /\ doc = <<>>
    /\ extracted = <<>>
    /\ substituted = 0

\* the agent before the application starts: the configuration row as
\* seeded, no job
AgentIdle ==
    /\ agentConfig = [interval_minutes |-> 120, is_active |-> TRUE,
                      last_run_at |-> 0]
    /\ cronJobs = <<>>
    /\ registry = 0
    /\ reconciles = <<>>
    /\ requests = <<>>
    /\ fires = 0
    /\ agentRuns = <<>>
    /\ executions = <<>>
    /\ triggers = <<>>

PipelineInit ==
    /\ articles = <<>>
    /\ images = <<>>
    /\ components = <<>>
    /\ categories = <<"General">>
    /\ clock = 1
    /\ pc = [r \in Runs |-> "idle"]
    /\ topicOf = [r \in Runs |-> ""]
    /\ result = [r \in Runs |-> InitialResult]
    /\ aiSlug = [r \in Runs |-> ""]
    /\ category = [r \in Runs |-> [name |-> "", id |-> 0]]
    /\ seoData = [r \in Runs |-> NoSeo]
    /\ articleContent = [r \in Runs |-> NoContent]
    /\ imagePrompts = [r \in Runs |-> <<>>]
    /\ idx = [r \in Runs |-> 0]
    /\ imageRecord = [r \in Runs |-> 0]
    /\ imageUrl = [r \in Runs |-> <<>>]
    /\ rewritten = [r \in Runs |-> <<>>]
    /\ component = [r \in Runs |-> NoComponent]
    /\ log = [r \in Runs |-> <<>>]
    /\ faultsLeft = MaxFaults
    /\ failures = [r \in Runs |-> <<>>]

\* no client of the stream, no event
BusIdle ==
    /\ listeners = <<>>
    /\ subscriptions = <<>>
    /\ published = <<>>

Init == PipelineInit /\ TextIdle /\ AgentIdle /\ BusIdle

\* ------------------------------------------------------- the environment

\* what the AI may answer to writeArticle
WriterResponses ==
    { <<"FENCE-markdown", "NL",
        "#", "SP", "A", "NL",
        "#", "#", "SP", "A", "NL", "P1", "NL", "a", "NL",
        "#", "#", "SP", "B", "NL", "P2", ":", "SP", "a", "NL",
        "FENCE">>,
      <<"#", "SP", "B", "NL",
        "#", "#", "SP", "A", "NL", "P1", "NL", "P2", "NL",
        "#", "#", "SP", "B", "NL", "P3", "NL", "P4">> }

\* what the AI may answer to humanizeContent for a content
HumanizerResponses(content) == { <<"a", "NL">> \o content }

\* what the AI may answer to finalReviewAndRestructure for a content
ReviewerResponses(content) == { <<"FENCE", "NL", "B", "NL">> \o content }

\* what the AI may answer to seoResearch, parsed
SeoResponses ==
    { [keywords |-> <<"x">>,
       h2Structure |-> <<[h2 |-> "A", h3s |-> <<>>], [h2 |-> "B", h3s |-> <<>>]>>,
       metaDescription |-> <<"m">>] }

\* answers to seoResearch that are JSON but not what was asked for: the
\* parsed object is returned as it is, nothing checks its fields
UnvalidatedSeoResponses ==
    { [keywords |-> <<>>, h2Structure |-> <<>>, metaDescription |-> <<>>] }

\* the category the AI suggests, and the default of suggestCategory when the
\* answer cannot be parsed
SuggestedCategory == "Tech"
DefaultCategory == "General"

\* the component the AI may suggest
ComponentResponses == { [type |-> "quiz", config |-> "c"] }

\* the environment makes the call the run r awaits fail (the underlying
\* request of an AI call, or the store call itself)
FaultAs(r, what) ==
    /\ faultsLeft > 0
    /\ faultsLeft' = faultsLeft - 1
    /\ failures' = [failures EXCEPT ![r] = Append(@, what)]

Fault(r) == FaultAs(r, pc[r])

\* the call the run awaits succeeds
NoFault == UNCHANGED <<faultsLeft, failures>>

\* ------------------------------------------------------------- the store

\* a row with the columns of updates overwritten
Patch(row, updates) ==
    [f \in DOMAIN row |-> IF f \in DOMAIN updates THEN updates[f] ELSE row[f]]

\* an update that replaces the row instead of patching it
replaceArticle(id, updates) == [articles EXCEPT ![id] = Patch(NullArticle, updates)]

\* SupabaseService.updateArticle: the table after the update
updateArticle(id, updates) == [articles EXCEPT ![id] = Patch(@, updates)]

\* SupabaseService.formatCustomSlug / generateSlug: the cleaned text and the
\* kind of suffix that makes the slug unique
formatCustomSlug(slug) == <<slug, "random">>
generateSlug(text) == <<text, "time">>

\* SupabaseService.createArticle: the row inserted
NewArticle(topic, customSlug) ==
    [id |-> Len(articles) + 1, topic |-> topic,
     slug |-> IF customSlug # "" THEN formatCustomSlug(customSlug)
              ELSE generateSlug(topic),
     title |-> <<topic>>, content_markdown |-> <<>>, meta_description |-> <<>>,
     keywords |-> <<>>, h2_structure |-> <<>>, status |-> "processing",
     thumbnail_url |-> <<>>, category_id |-> 0, published_at |-> 0]

\* SupabaseService.publishArticle: the table after the update
publishArticle(id) ==
    updateArticle(id, [status |-> "published", published_at |-> clock])

\* SupabaseService.uploadImage: the public URL of the file
PublicUrl(articleId, filename) == <<"articles", articleId, filename>>

\* the file name of the image of the i-th placeholder: `image-${i}.png`
ImageFilename(i) ==
    CASE i = 1 -> "image-1.png" [] i = 2 -> "image-2.png"
      [] i = 3 -> "image-3.png" [] OTHER -> "image-4.png"

\* ---------------------------------------------------------------- the log

\* the awaited call a run is suspended at: <<kind, operation, stage>>
CallOf(label) ==
    CASE label = "suggestSlug" -> <<"ai", "suggestSlug", "init">>
      [] label = "createArticle" -> <<"store", "createArticle", "init">>
      [] label = "getAllCategories" -> <<"store", "getAllCategories", "category">>
      [] label = "suggestCategory" -> <<"ai", "suggestCategory", "category">>
      [] label = "getCategoryByName" -> <<"store", "getCategoryByName", "category">>
      [] label = "createCategory" -> <<"store", "createCategory", "category">>
      [] label = "updateArticleCategory" -> <<"store", "updateArticle", "category">>
      [] label = "seoResearch" -> <<"ai", "seoResearch", "seoResearch">>
      [] label = "seoUpdate" -> <<"store", "updateArticle", "seoResearch">>
      [] label = "writeArticle" -> <<"ai", "writeArticle", "writing">>
      [] label = "writeUpdate" -> <<"store", "updateArticle", "writing">>
      [] label = "humanizeContent" -> <<"ai", "humanizeContent", "humanizing">>
      [] label = "humanizeUpdate" -> <<"store", "updateArticle", "humanizing">>
      [] label = "thumbGenerate" -> <<"ai", "generateImage", "visualGeneration">>
      [] label = "thumbUpload" -> <<"store", "uploadImage", "visualGeneration">>
      [] label = "thumbUpdate" -> <<"store", "updateArticle", "visualGeneration">>
      [] label = "createArticleImage" -> <<"store", "createArticleImage", "visualGeneration">>
      [] label = "generateImage" -> <<"ai", "generateImage", "visualGeneration">>
      [] label = "uploadImage" -> <<"store", "uploadImage", "visualGeneration">>
      [] label = "updateImageUrl" -> <<"store", "updateImageUrl", "visualGeneration">>
      [] label = "generateAltTags" -> <<"ai", "generateAltTags", "visualGeneration">>
      [] label = "visualUpdate" -> <<"store", "updateArticle", "visualGeneration">>
      [] label = "generateInteractiveComponent" ->
             <<"ai", "generateInteractiveComponent", "interactive">>
      [] label = "createComponent" -> <<"store", "createComponent", "interactive">>
      [] label = "finalReview" -> <<"ai", "finalReviewAndRestructure", "finalReview">>
      [] label = "finalUpdate" -> <<"store", "updateArticle", "finalReview">>
      [] label = "markReview" -> <<"store", "updateArticle:review", "terminal">>
      [] label = "revertDraft" -> <<"store", "updateArticle:draft", "terminal">>

\* eventEmitter.emit('pipeline.log', {topic, stage, message}): the event with
\* its stage tag and the part of executePipeline that published it
Emit(stage, section) == <<"emit", stage, section>>

Ended == {"returned", "rejected"}

\* the run r publishes the events `emits`, then issues the call of `label`
\* and is suspended at it (or ends)
GoTo(r, label, emits) ==
    /\ pc' = [pc EXCEPT ![r] = label]
    /\ log' = [log EXCEPT ![r] =
                 @ \o emits \o (IF label \in Ended THEN <<>> ELSE <<CallOf(label)>>)]

\* --------------------------------------------------- executePipeline

\* the update that marks the article ready for review
ReviewUpdate == [status |-> "review"]

\* a top-level catch that leaves the status as it is
DraftUpdateKeepsStatus == [status |-> "processing"]

\* the update of the top-level catch
DraftUpdate == [status |-> "draft"]

\* result with one more entry in errors
WithError(res, e) == [res EXCEPT !.errors = Append(@, e)]

\* result with the flag of a stage set
WithStage(res, stage) == [res EXCEPT !.stages[stage] = TRUE]

\* the top-level catch of executePipeline, entered with result res: the
\* status is reverted when the record exists, else the run returns
Catch(r, res) ==
    IF res.article.id # 0
    THEN /\ result' = [result EXCEPT ![r] = res]
         /\ GoTo(r, "revertDraft", <<>>)
    ELSE /\ result' = [result EXCEPT ![r] = WithError(res, "Pipeline failed")]
         /\ GoTo(r, "returned", <<>>)

\* the call of executePipeline(topic): up to the await of suggestSlug
executePipeline(r, topic) ==
    /\ pc[r] = "idle"
    /\ topicOf' = [topicOf EXCEPT ![r] = topic]
    /\ result' = [result EXCEPT ![r] = InitialResult]
    /\ GoTo(r, "suggestSlug",
            <<Emit("seoResearch", "init"), Emit("seoResearch", "init")>>)
    /\ UNCHANGED <<storeVars, aiSlug, category, seoData, articleContent,
                   imagePrompts, idx, imageRecord, imageUrl, rewritten,
                   component>>

\* a request that calls executePipeline(topic)
Start(r, topic) ==
    /\ executePipeline(r, topic)
    /\ UNCHANGED <<faultsLeft, failures>>
    /\ UNCHANGED otherVars

\* suggestSlug resolves: it never rejects, a failed generation yields the
\* slug cleaned from the topic
SuggestSlug(r) ==
    /\ pc[r] = "suggestSlug"
    /\ \/ NoFault /\ aiSlug' = [aiSlug EXCEPT ![r] = "ai-slug"]
       \/ Fault(r) /\ aiSlug' = [aiSlug EXCEPT ![r] = "topic-slug"]
    /\ GoTo(r, "createArticle", <<>>)
    /\ UNCHANGED <<storeVars, topicOf, result, category, seoData,
                   articleContent, imagePrompts, idx, imageRecord, imageUrl, rewritten,
                   component>>
    /\ UNCHANGED otherVars

\* createArticle resolves
CreateArticle(r) ==
    /\ pc[r] = "createArticle"
    /\ \/ /\ NoFault
          /\ articles' = Append(articles, NewArticle(topicOf[r], aiSlug[r]))
          /\ result' = [result EXCEPT ![r].article =
                          NewArticle(topicOf[r], aiSlug[r])]
          /\ GoTo(r, "getAllCategories", <<>>)
       \/ /\ Fault(r)
          /\ Catch(r, result[r])
          /\ UNCHANGED articles
    /\ UNCHANGED <<images, components, categories, clock, topicOf, aiSlug,
                   category, seoData, articleContent, imagePrompts, idx,
                   imageRecord, imageUrl, rewritten, component>>
    /\ UNCHANGED otherVars

\* the catch of stage 0, and what follows it up to the await of seoResearch
CategoryFailed(r) ==
    /\ result' = [result EXCEPT ![r] = WithError(@, "Category assignment failed")]
    /\ GoTo(r, "seoResearch", <<Emit("seoResearch", "seoResearch")>>)

\* getAllCategories resolves
GetAllCategories(r) ==
    /\ pc[r] = "getAllCategories"
    /\ \/ NoFault /\ GoTo(r, "suggestCategory", <<>>) /\ UNCHANGED result
       \/ Fault(r) /\ CategoryFailed(r)
    /\ UNCHANGED <<storeVars, topicOf, aiSlug, category, seoData,
                   articleContent, imagePrompts, idx, imageRecord, imageUrl, rewritten,
                   component>>
    /\ UNCHANGED otherVars

\* suggestCategory resolves: an answer that cannot be parsed yields the
\* default category, a failed generation rejects
SuggestCategory(r) ==
    /\ pc[r] = "suggestCategory"
    /\ \/ /\ NoFault
          /\ category' = [category EXCEPT ![r] =
                             [name |-> SuggestedCategory, id |-> 0]]
          /\ GoTo(r, "getCategoryByName", <<>>) /\ UNCHANGED result
       \/ /\ FaultAs(r, "suggestCategory:parse")
          /\ category' = [category EXCEPT ![r] =
                             [name |-> DefaultCategory, id |-> 0]]
          /\ GoTo(r, "getCategoryByName", <<>>) /\ UNCHANGED result
       \/ Fault(r) /\ CategoryFailed(r) /\ UNCHANGED category
    /\ UNCHANGED <<storeVars, topicOf, aiSlug, seoData, articleContent,
                   imagePrompts, idx, imageRecord, imageUrl, rewritten,
                   component>>
    /\ UNCHANGED otherVars

\* a category name with its letters folded, as ilike compares names
LowerName(name) ==
    CASE name = "Tech" -> "tech"
      [] name = "General" -> "general"
      [] OTHER -> name

\* the rows that .ilike('name', name) selects
RowsNamed(name) ==
    {k \in DOMAIN categories : LowerName(categories[k]) = LowerName(name)}

\* findOrCreateCategory: getCategoryByName resolves, with one of the rows of
\* the name (limit(1) of an unordered select) or with none
GetCategoryByName(r) ==
    /\ pc[r] = "getCategoryByName"
    /\ \/ /\ NoFault
          /\ IF RowsNamed(category[r].name) # {}
             THEN /\ \E k \in RowsNamed(category[r].name) :
                        category' = [category EXCEPT ![r].id = k]
                  /\ GoTo(r, "updateArticleCategory", <<>>)
             ELSE GoTo(r, "createCategory", <<>>) /\ UNCHANGED category
          /\ UNCHANGED result
       \/ Fault(r) /\ CategoryFailed(r) /\ UNCHANGED category
    /\ UNCHANGED <<storeVars, topicOf, aiSlug, seoData,
                   articleContent, imagePrompts, idx, imageRecord, imageUrl, rewritten,
                   component>>
    /\ UNCHANGED otherVars

\* findOrCreateCategory: createCategory resolves
CreateCategory(r) ==
    /\ pc[r] = "createCategory"
    /\ \/ /\ NoFault
          /\ categories' = Append(categories, category[r].name)
          /\ category' = [category EXCEPT ![r].id = Len(categories) + 1]
          /\ GoTo(r, "updateArticleCategory", <<>>) /\ UNCHANGED result
       \/ Fault(r) /\ CategoryFailed(r) /\ UNCHANGED <<categories, category>>
    /\ UNCHANGED <<articles, images, components, clock, topicOf, aiSlug,
                   seoData, articleContent, imagePrompts, idx,
                   imageRecord, imageUrl, rewritten, component>>
    /\ UNCHANGED otherVars

\* updateArticleCategory resolves
UpdateArticleCategory(r) ==
    /\ pc[r] = "updateArticleCategory"
    /\ \/ /\ NoFault
          /\ articles' = updateArticle(result[r].article.id,
                                       [category_id |-> category[r].id])
          /\ GoTo(r, "seoResearch", <<Emit("seoResearch", "seoResearch")>>)
          /\ UNCHANGED result
       \/ Fault(r) /\ CategoryFailed(r) /\ UNCHANGED articles
    /\ UNCHANGED <<images, components, categories, clock, topicOf, aiSlug,
                   category, seoData, articleContent, imagePrompts, idx,
                   imageRecord, imageUrl, rewritten, component>>
    /\ UNCHANGED otherVars

\* a catch of stage 1 that rethrows to the top-level catch
SeoFailedAborts(r) ==
    /\ seoData' = [seoData EXCEPT ![r] = FallbackSeo(topicOf[r])]
    /\ Catch(r, WithError(result[r], "SEO Research failed"))

\* the catch of stage 1, and what follows it up to the await of writeArticle
SeoFailed(r) ==
    /\ result' = [result EXCEPT ![r] = WithError(@, "SEO Research failed")]
    /\ seoData' = [seoData EXCEPT ![r] = FallbackSeo(topicOf[r])]
    /\ GoTo(r, "writeArticle", <<Emit("writing", "writing")>>)

\* seoResearch resolves
SeoResearch(r) ==
    /\ pc[r] = "seoResearch"
    /\ \/ /\ NoFault
          /\ \E answer \in SeoResponses :
                seoData' = [seoData EXCEPT ![r] = answer]
          /\ GoTo(r, "seoUpdate", <<>>) /\ UNCHANGED result
       \/ /\ FaultAs(r, "seoResearch:unvalidated")
          /\ \E answer \in UnvalidatedSeoResponses :
                seoData' = [seoData EXCEPT ![r] = answer]
          /\ GoTo(r, "seoUpdate", <<>>) /\ UNCHANGED result
       \/ Fault(r) /\ SeoFailed(r)
    /\ UNCHANGED <<storeVars, topicOf, aiSlug, category, articleContent,
                   imagePrompts, idx, imageRecord, imageUrl, rewritten,
                   component>>
    /\ UNCHANGED otherVars

\* the updateArticle of stage 1 resolves
SeoUpdate(r) ==
    /\ pc[r] = "seoUpdate"
    /\ \/ /\ NoFault
          /\ articles' = updateArticle(result[r].article.id,
                            [keywords |-> seoData[r].keywords,
                             h2_structure |-> seoData[r].h2Structure,
                             meta_description |-> seoData[r].metaDescription])
          /\ result' = [result EXCEPT ![r] = WithStage(@, "seoResearch")]
          /\ GoTo(r, "writeArticle", <<Emit("writing", "writing")>>)
          /\ UNCHANGED seoData
       \/ Fault(r) /\ SeoFailed(r) /\ UNCHANGED articles
    /\ UNCHANGED <<images, components, categories, clock, topicOf, aiSlug,
                   category, articleContent, imagePrompts, idx, imageRecord,
                   imageUrl, rewritten, component>>
    /\ UNCHANGED otherVars

\* a catch of stage 2 that records the error and goes on to stage 3
WritingFailedContinues(r) ==
    /\ result' = [result EXCEPT ![r] = WithError(@, "Writing failed")]
    /\ GoTo(r, "humanizeContent", <<Emit("humanizing", "humanizing")>>)

\* a catch of stage 2 that rethrows without recording the error
WritingFailedUnrecorded(r) == Catch(r, result[r])

\* the catch of stage 2: the error is recorded and rethrown to the top-level
\* catch
WritingFailed(r) == Catch(r, WithError(result[r], "Writing failed"))

\* writeArticle resolves
WriteArticle(r) ==
    /\ pc[r] = "writeArticle"
    /\ \/ /\ NoFault
          /\ \E response \in WriterResponses :
                articleContent' = [articleContent EXCEPT ![r] =
                    [title |-> TitleOf(StripFences(response), topicOf[r]),
                     content |-> StripFences(response)]]
          /\ GoTo(r, "writeUpdate", <<>>) /\ UNCHANGED result
       \/ Fault(r) /\ WritingFailed(r) /\ UNCHANGED articleContent
    /\ UNCHANGED <<storeVars, topicOf, aiSlug, category, seoData,
                   imagePrompts, idx, imageRecord, imageUrl, rewritten,
                   component>>
    /\ UNCHANGED otherVars

\* the updateArticle of stage 2 resolves
WriteUpdate(r) ==
    /\ pc[r] = "writeUpdate"
    /\ \/ /\ NoFault
          /\ articles' = updateArticle(result[r].article.id,
                            [title |-> articleContent[r].title,
                             content_markdown |-> articleContent[r].content])
          /\ result' = [result EXCEPT ![r] = WithStage(@, "writing")]
          /\ GoTo(r, "humanizeContent", <<Emit("humanizing", "humanizing")>>)
       \/ Fault(r) /\ WritingFailed(r) /\ UNCHANGED articles
    /\ UNCHANGED <<images, components, categories, clock, topicOf, aiSlug,
                   category, seoData, articleContent, imagePrompts, idx,
                   imageRecord, imageUrl, rewritten, component>>
    /\ UNCHANGED otherVars

\* the updateArticle of the top-level catch resolves: the status is reverted
\* and the run returns; when it fails, executePipeline rejects
RevertDraft(r) ==
    /\ pc[r] = "revertDraft"
    /\ \/ /\ NoFault
          /\ articles' = updateArticle(result[r].article.id, DraftUpdate)
          /\ result' = [result EXCEPT ![r] = WithError(@, "Pipeline failed")]
          /\ GoTo(r, "returned", <<>>)
       \/ /\ Fault(r)
          /\ GoTo(r, "rejected", <<>>)
          /\ UNCHANGED <<articles, result>>
    /\ UNCHANGED <<images, components, categories, clock, topicOf, aiSlug,
                   category, seoData, articleContent, imagePrompts, idx,
                   imageRecord, imageUrl, rewritten, component>>
    /\ UNCHANGED otherVars

\* a catch of stage 3 that rethrows to the top-level catch
HumanizingFailedAborts(r) == Catch(r, WithError(result[r], "Humanizing failed"))

\* a catch of stage 3 that goes back to stage 2
HumanizingFailedRestarts(r) ==
    /\ result' = [result EXCEPT ![r] = WithError(@, "Humanizing failed")]
    /\ GoTo(r, "writeArticle", <<Emit("writing", "writing")>>)

\* the catch of stage 3, and what follows it up to the await of the
\* thumbnail's generateImage
HumanizingFailed(r) ==
    /\ result' = [result EXCEPT ![r] = WithError(@, "Humanizing failed")]
    /\ GoTo(r, "thumbGenerate", <<>>)

\* humanizeContent resolves
HumanizeContent(r) ==
    /\ pc[r] = "humanizeContent"
    /\ \/ /\ NoFault
          /\ \E response \in HumanizerResponses(articleContent[r].content) :
                rewritten' = [rewritten EXCEPT ![r] = response]
          /\ GoTo(r, "humanizeUpdate", <<>>) /\ UNCHANGED result
       \/ Fault(r) /\ HumanizingFailed(r) /\ UNCHANGED rewritten
    /\ UNCHANGED <<storeVars, topicOf, aiSlug, category, seoData,
                   articleContent, imagePrompts, idx, imageRecord, imageUrl,
                   component>>
    /\ UNCHANGED otherVars

\* the updateArticle of stage 3 resolves
HumanizeUpdate(r) ==
    /\ pc[r] = "humanizeUpdate"
    /\ \/ /\ NoFault
          /\ articles' = updateArticle(result[r].article.id,
                                       [content_markdown |-> rewritten[r]])
          /\ articleContent' = [articleContent EXCEPT ![r].content = rewritten[r]]
          /\ result' = [result EXCEPT ![r] = WithStage(@, "humanizing")]
          /\ GoTo(r, "thumbGenerate", <<>>)
       \/ Fault(r) /\ HumanizingFailed(r) /\ UNCHANGED <<articles, articleContent>>
    /\ UNCHANGED <<images, components, categories, clock, topicOf, aiSlug,
                   category, seoData, imagePrompts, idx, imageRecord,
                   imageUrl, rewritten, component>>
    /\ UNCHANGED otherVars

\* the number of placeholders the image loop processes
MaxImages == 3

\* a loop that goes through every prompt
LoopLimitAll(prompts) == Len(prompts)

LoopLimit(prompts) == Min(Len(prompts), MaxImages)

\* the image loop at  i < Math.min(imagePrompts.length, 3)  with content c:
\* the next iteration up to the await of createArticleImage, or the final
\* cleanup up to the await of the stage's updateArticle
ImageLoop(r, prompts, i, c, emits) ==
    /\ idx' = [idx EXCEPT ![r] = i]
    /\ IF i < LoopLimit(prompts)
       THEN /\ articleContent' = [articleContent EXCEPT ![r].content = c]
            /\ GoTo(r, "createArticleImage", emits)
       ELSE /\ articleContent' = [articleContent EXCEPT ![r].content =
                                    CleanupPlaceholders(c)]
            /\ GoTo(r, "visualUpdate", emits)

\* what follows the thumbnail's try/catch: the event of the stage, the
\* extraction of the prompts and the start of the image loop
AfterThumbnail(r) ==
    /\ imagePrompts' = [imagePrompts EXCEPT ![r] =
                          extractImagePrompts(articleContent[r].content)]
    /\ ImageLoop(r, extractImagePrompts(articleContent[r].content), 0,
                 articleContent[r].content,
                 <<Emit("visualGeneration", "visualGeneration")>>)

\* the thumbnail's generateImage resolves: it never rejects, a failed
\* generation yields null
ThumbGenerate(r) ==
    /\ pc[r] = "thumbGenerate"
    /\ \/ /\ NoFault
          /\ GoTo(r, "thumbUpload", <<>>)
          /\ UNCHANGED <<imagePrompts, idx, articleContent>>
       \/ Fault(r) /\ AfterThumbnail(r)
    /\ UNCHANGED <<storeVars, topicOf, result, aiSlug, category, seoData,
                   imageRecord, imageUrl, rewritten, component>>
    /\ UNCHANGED otherVars

\* the thumbnail's uploadImage resolves
ThumbUpload(r) ==
    /\ pc[r] = "thumbUpload"
    /\ \/ /\ NoFault
          /\ imageUrl' = [imageUrl EXCEPT ![r] =
                            PublicUrl(result[r].article.id, "thumbnail.png")]
          /\ GoTo(r, "thumbUpdate", <<>>)
          /\ UNCHANGED <<imagePrompts, idx, articleContent>>
       \/ Fault(r) /\ AfterThumbnail(r) /\ UNCHANGED imageUrl
    /\ UNCHANGED <<storeVars, topicOf, result, aiSlug, category, seoData,
                   imageRecord, rewritten, component>>
    /\ UNCHANGED otherVars

\* the thumbnail's updateArticle resolves
ThumbUpdate(r) ==
    /\ pc[r] = "thumbUpdate"
    /\ \/ /\ NoFault
          /\ articles' = updateArticle(result[r].article.id,
                                       [thumbnail_url |-> imageUrl[r]])
       \/ Fault(r) /\ UNCHANGED articles
    /\ AfterThumbnail(r)
    /\ UNCHANGED <<images, components, categories, clock, topicOf, result,
                   aiSlug, category, seoData, imageRecord, imageUrl,
                   rewritten, component>>
    /\ UNCHANGED otherVars

\* the catch of stage 4, and what follows it up to the await of
\* generateInteractiveComponent
VisualFailed(r) ==
    /\ result' = [result EXCEPT ![r] = WithError(@, "Visual generation failed")]
    /\ GoTo(r, "generateInteractiveComponent",
            <<Emit("interactive", "interactive")>>)

\* SupabaseService.createArticleImage: the row inserted
\* a row created with the address its image will have
NewImageWithUrl(articleId, prompt, position) ==
    [id |-> Len(images) + 1, article_id |-> articleId, prompt |-> prompt,
     position |-> position,
     storage_url |-> <<"articles", articleId, position>>]

NewImage(articleId, prompt, position) ==
    [id |-> Len(images) + 1, article_id |-> articleId, prompt |-> prompt,
     position |-> position, storage_url |-> <<>>]

\* createArticleImage resolves
CreateArticleImage(r) ==
    /\ pc[r] = "createArticleImage"
    /\ \/ /\ NoFault
          /\ images' = Append(images,
                          NewImage(result[r].article.id,
                                   imagePrompts[r][idx[r] + 1].prompt,
                                   idx[r] + 1))
          /\ imageRecord' = [imageRecord EXCEPT ![r] = Len(images) + 1]
          /\ GoTo(r, "generateImage", <<>>)
          /\ UNCHANGED result
       \/ Fault(r) /\ VisualFailed(r) /\ UNCHANGED <<images, imageRecord>>
    /\ UNCHANGED <<articles, components, categories, clock, topicOf, aiSlug,
                   category, seoData, articleContent, imagePrompts, idx,
                   imageUrl, rewritten, component>>
    /\ UNCHANGED otherVars

\* the next iteration of the image loop, the content unchanged: after the
\* catch of the iteration, or when no image was generated
NextImage(r) ==
    ImageLoop(r, imagePrompts[r], idx[r] + 1, articleContent[r].content, <<>>)

\* generateImage resolves for a placeholder
GenerateImage(r) ==
    /\ pc[r] = "generateImage"
    /\ \/ /\ NoFault
          /\ GoTo(r, "uploadImage", <<>>)
          /\ UNCHANGED <<idx, articleContent>>
       \/ Fault(r) /\ NextImage(r)
    /\ UNCHANGED <<storeVars, topicOf, result, aiSlug, category, seoData,
                   imagePrompts, imageRecord, imageUrl, rewritten, component>>
    /\ UNCHANGED otherVars

\* uploadImage resolves for a placeholder
UploadImage(r) ==
    /\ pc[r] = "uploadImage"
    /\ \/ /\ NoFault
          /\ imageUrl' = [imageUrl EXCEPT ![r] =
                            PublicUrl(result[r].article.id,
                                      ImageFilename(idx[r] + 1))]
          /\ GoTo(r, "updateImageUrl", <<>>)
          /\ UNCHANGED <<idx, articleContent>>
       \/ Fault(r) /\ NextImage(r) /\ UNCHANGED imageUrl
    /\ UNCHANGED <<storeVars, topicOf, result, aiSlug, category, seoData,
                   imagePrompts, imageRecord, rewritten, component>>
    /\ UNCHANGED otherVars

\* SupabaseService.updateImageUrl: the table after the update
updateImageUrl(imageId, storageUrl) ==
    [images EXCEPT ![imageId].storage_url = storageUrl]

\* updateImageUrl resolves
UpdateImageUrl(r) ==
    /\ pc[r] = "updateImageUrl"
    /\ \/ /\ NoFault
          /\ images' = updateImageUrl(imageRecord[r], imageUrl[r])
          /\ GoTo(r, "generateAltTags", <<>>)
          /\ UNCHANGED <<idx, articleContent>>
       \/ Fault(r) /\ NextImage(r) /\ UNCHANGED images
    /\ UNCHANGED <<articles, components, categories, clock, topicOf, result,
                   aiSlug, category, seoData, imagePrompts, imageRecord,
                   imageUrl, rewritten, component>>
    /\ UNCHANGED otherVars

\* generateAltTags resolves: it never rejects, a failed generation yields an
\* alt text cleaned from the prompt.  The placeholder is replaced.
GenerateAltTags(r) ==
    /\ pc[r] = "generateAltTags"
    /\ NoFault \/ Fault(r)
    /\ ImageLoop(r, imagePrompts[r], idx[r] + 1,
                 ReplacePlaceholder(articleContent[r].content,
                                    imagePrompts[r][idx[r] + 1].placeholder,
                                    ImageMarkdown(idx[r] + 1)),
                 <<>>)
    /\ UNCHANGED <<storeVars, topicOf, result, aiSlug, category, seoData,
                   imagePrompts, imageRecord, imageUrl, rewritten, component>>
    /\ UNCHANGED otherVars

\* the updateArticle of stage 4 resolves
VisualUpdate(r) ==
    /\ pc[r] = "visualUpdate"
    /\ \/ /\ NoFault
          /\ articles' = updateArticle(result[r].article.id,
                            [content_markdown |-> articleContent[r].content])
          /\ result' = [result EXCEPT ![r] = WithStage(@, "visualGeneration")]
          /\ GoTo(r, "generateInteractiveComponent",
                  <<Emit("interactive", "interactive")>>)
       \/ Fault(r) /\ VisualFailed(r) /\ UNCHANGED articles
    /\ UNCHANGED <<images, components, categories, clock, topicOf, aiSlug,
                   category, seoData, articleContent, imagePrompts, idx,
                   imageRecord, imageUrl, rewritten, component>>
    /\ UNCHANGED otherVars

\* the catch of stage 5, and what follows it up to the await of
\* finalReviewAndRestructure
InteractiveDone(r, res) ==
    /\ result' = [result EXCEPT ![r] = res]
    /\ GoTo(r, "finalReview", <<Emit("finalReview", "finalReview")>>)

\* generateInteractiveComponent resolves: a component, or null when the AI
\* suggests none or its answer cannot be parsed; a failed generation rejects
GenerateInteractiveComponent(r) ==
    /\ pc[r] = "generateInteractiveComponent"
    /\ \/ /\ NoFault
          /\ \E c \in ComponentResponses :
                component' = [component EXCEPT ![r] = c]
          /\ GoTo(r, "createComponent", <<>>)
          /\ UNCHANGED result
       \/ /\ NoFault
          /\ InteractiveDone(r, WithStage(result[r], "interactive"))
          /\ UNCHANGED component
       \/ /\ Fault(r)
          /\ InteractiveDone(r, WithError(result[r], "Interactive component failed"))
          /\ UNCHANGED component
    /\ UNCHANGED <<storeVars, topicOf, aiSlug, category, seoData,
                   articleContent, imagePrompts, idx, imageRecord, imageUrl,
                   rewritten>>
    /\ UNCHANGED otherVars

\* SupabaseService.createComponent: the row inserted
NewComponent(articleId, componentType, config) ==
    [id |-> Len(components) + 1, article_id |-> articleId,
     component_type |-> componentType, config |-> config]

\* createComponent resolves
CreateComponent(r) ==
    /\ pc[r] = "createComponent"
    /\ \/ /\ NoFault
          /\ components' = Append(components,
                              NewComponent(result[r].article.id,
                                           component[r].type, component[r].config))
          /\ InteractiveDone(r, WithStage(result[r], "interactive"))
       \/ /\ Fault(r)
          /\ InteractiveDone(r, WithError(result[r], "Interactive component failed"))
          /\ UNCHANGED components
    /\ UNCHANGED <<articles, images, categories, clock, topicOf, aiSlug,
                   category, seoData, articleContent, imagePrompts, idx,
                   imageRecord, imageUrl, rewritten, component>>
    /\ UNCHANGED otherVars

\* finalReviewAndRestructure resolves: it never rejects, a failed generation
\* yields the content it was given
FinalReview(r) ==
    /\ pc[r] = "finalReview"
    /\ \/ /\ NoFault
          /\ \E response \in ReviewerResponses(articleContent[r].content) :
                rewritten' = [rewritten EXCEPT ![r] = StripFences(response)]
       \/ /\ Fault(r)
          /\ rewritten' = [rewritten EXCEPT ![r] = articleContent[r].content]
    /\ GoTo(r, "finalUpdate", <<>>)
    /\ UNCHANGED <<storeVars, topicOf, result, aiSlug, category, seoData,
                   articleContent, imagePrompts, idx, imageRecord, imageUrl,
                   component>>
    /\ UNCHANGED otherVars

\* the updateArticle of stage 6 resolves; what follows up to the await of
\* the updateArticle that marks the article ready for review
FinalUpdate(r) ==
    /\ pc[r] = "finalUpdate"
    /\ \/ /\ NoFault
          /\ articles' = updateArticle(result[r].article.id,
                                       [content_markdown |-> rewritten[r]])
          /\ articleContent' = [articleContent EXCEPT ![r].content = rewritten[r]]
          /\ result' = [result EXCEPT ![r] = WithStage(@, "finalReview")]
       \/ /\ Fault(r)
          /\ result' = [result EXCEPT ![r] = WithError(@, "Final review failed")]
          /\ UNCHANGED <<articles, articleContent>>
    /\ GoTo(r, "markReview", <<>>)
    /\ UNCHANGED <<images, components, categories, clock, topicOf, aiSlug,
                   category, seoData, imagePrompts, idx, imageRecord,
                   imageUrl, rewritten, component>>
    /\ UNCHANGED otherVars

\* the updateArticle that marks the article ready for review resolves: the
\* result takes the row it returns and the run returns; when it fails, the
\* top-level catch is entered
MarkReview(r) ==
    /\ pc[r] = "markReview"
    /\ \/ /\ NoFault
          /\ articles' = updateArticle(result[r].article.id, ReviewUpdate)
          /\ result' = [result EXCEPT ![r].article =
                          updateArticle(result[r].article.id,
                                        ReviewUpdate)[result[r].article.id]]
          /\ GoTo(r, "returned", <<Emit("finalReview", "terminal")>>)
       \/ Fault(r) /\ Catch(r, result[r]) /\ UNCHANGED articles
    /\ UNCHANGED <<images, components, categories, clock, topicOf, aiSlug,
                   category, seoData, articleContent, imagePrompts, idx,
                   imageRecord, imageUrl, rewritten, component>>
    /\ UNCHANGED otherVars

\* one step of the run r of executePipeline
PipelineStep(r) ==
    \/ SuggestSlug(r) \/ CreateArticle(r)
    \/ GetAllCategories(r) \/ SuggestCategory(r) \/ GetCategoryByName(r)
    \/ CreateCategory(r) \/ UpdateArticleCategory(r)
    \/ SeoResearch(r) \/ SeoUpdate(r)
    \/ WriteArticle(r) \/ WriteUpdate(r)
    \/ HumanizeContent(r) \/ HumanizeUpdate(r)
    \/ ThumbGenerate(r) \/ ThumbUpload(r) \/ ThumbUpdate(r)
    \/ CreateArticleImage(r) \/ GenerateImage(r) \/ UploadImage(r)
    \/ UpdateImageUrl(r) \/ GenerateAltTags(r) \/ VisualUpdate(r)
    \/ GenerateInteractiveComponent(r) \/ CreateComponent(r)
    \/ FinalReview(r) \/ FinalUpdate(r)
    \/ MarkReview(r) \/ RevertDraft(r)

\* POST /api/articles/:id/publish (ArticlesController.publishArticle,
\* ArticlesService.publishArticle): the article is published, whatever its
\* status
Publish(id) ==
    /\ id \in 1..Len(articles)
    /\ clock <= MaxPublishes
    /\ articles' = publishArticle(id)
    /\ clock' = clock + 1
    /\ UNCHANGED <<images, components, categories, pc, topicOf, result,
                   aiSlug, category, seoData, articleContent, imagePrompts,
                   idx, imageRecord, imageUrl, rewritten, component, log,
                   faultsLeft, failures>>
    /\ UNCHANGED otherVars

\* ------------------------------------- the text functions on their own

\* the lines the documents are made of
Lines ==
    { <<"#", "#", "SP", "A">>,
      <<"a", "n">>,
      <<"P1">>,
      <<"P2", ":", "SP", "a">>,
      <<"P3", "SP", "A">>,
      <<"P1", ":", "SP", "a", "SP", "P2">>,
      <<"P1", ":", "SP", "a", "!", "SP", "P2">>,
      <<"P2", "SP", "<", "!", "--", "SP", "Image:", "SP", "a", "SP", "--", ">">>,
      <<"P1", "SP", "<", "!", "--", "SP", "Image:", "SP", "a", "-", "a", "SP",
        "--", ">">>,
      <<"PO", "P1", "2]">> }

\* the longest document, in lines
MaxLines == 2

\* the documents of n lines
RECURSIVE DocsOf(_)
DocsOf(n) ==
    IF n = 1 THEN Lines
    ELSE {d \o <<"NL">> \o l : d \in DocsOf(n - 1), l \in Lines}

Docs == UNION {DocsOf(n) : n \in 1..MaxLines}

\* a document is given
TextInit ==
    /\ PipelineInit /\ AgentIdle /\ BusIdle
    /\ textPc = "input"
    /\ docInput \in Docs
    /\ doc = docInput
    /\ extracted = <<>>
    /\ substituted = 0

\* extractImagePrompts is applied to the document
TextExtract ==
    /\ textPc = "input"
    /\ extracted' = extractImagePrompts(docInput)
    /\ textPc' = "extracted"
    /\ UNCHANGED <<docInput, doc, substituted, pipelineVars, agentVars,
                  busVars>>

\* the next extracted placeholder is replaced by its image embed, as an
\* iteration of the image loop does
TextSubstitute ==
    /\ textPc = "extracted"
    /\ substituted < Len(extracted)
    /\ doc' = ReplacePlaceholder(doc, extracted[substituted + 1].placeholder,
                                 ImageMarkdown(substituted + 1))
    /\ substituted' = substituted + 1
    /\ UNCHANGED <<textPc, docInput, extracted, pipelineVars, agentVars,
                  busVars>>

\* the cleanup pass is applied to the document as it is; then once more
TextCleanup ==
    /\ textPc \in {"input", "extracted", "cleaned"}
    /\ doc' = CleanupPlaceholders(doc)
    /\ textPc' = IF textPc = "cleaned" THEN "recleaned" ELSE "cleaned"
    /\ UNCHANGED <<docInput, extracted, substituted, pipelineVars, agentVars,
                  busVars>>

TextNext == TextExtract \/ TextSubstitute \/ TextCleanup

SpecText == TextInit /\ [][TextNext]_vars

\* ------------------------------------------ AgentService: the scheduler

\* the calls of setupScheduler the model follows
MaxReconciles == 3

\* the callbacks of timers the model follows
MaxFires == 2

\* the requests POST /agent/config the model follows
MaxRequests == 3

\* the values of interval_minutes a configuration update may carry: the
\* body is not validated
Intervals == {-5, 0, 30, 45, 150}

\* what POST /agent/config may carry
ConfigUpdates ==
    {[interval_minutes |-> n] : n \in Intervals}
        \cup {[is_active |-> b] : b \in BOOLEAN}

\* config.interval_minutes || 120
DefaultInterval == 120

IntervalMins(config) ==
    IF config.interval_minutes = 0 THEN DefaultInterval
    ELSE config.interval_minutes

\* the cron expression of an interval:  0 */n * * * *  under 60 minutes,
\* 0 0 */floor(n/60) * * *  from 60 minutes on
CronExpression(intervalMins) ==
    IF intervalMins < 60
    THEN [unit |-> "minute", step |-> intervalMins]
    ELSE [unit |-> "hour", step |-> intervalMins \div 60]

\* new CronJob(cronExp) throws for a field that is no step of a positive
\* number
ValidCron(cronExp) == cronExp.step >= 1

\* a job of the expression fires at minute t of a day (second 0): a step
\* */n of a field takes the values of the field that are multiples of n
FiresAt(cronExp, t) ==
    IF cronExp.unit = "minute"
    THEN (t % 60) % cronExp.step = 0
    ELSE t % 60 = 0 /\ (t \div 60) % cronExp.step = 0

\* stopCron on the jobs and the registry: the job under JOB_NAME, if there
\* is one, is stopped and deleted from the registry
StopCronForgetsJob(jobs, reg) == [jobs |-> jobs, registry |-> 0]

StopCronSkipped(jobs, reg) == [jobs |-> jobs, registry |-> reg]

stopCron(jobs, reg) ==
    [jobs |-> IF reg = 0 THEN jobs ELSE [jobs EXCEPT ![reg].running = FALSE],
     registry |-> 0]

\* updateCron: the job is stopped, a new one is created, registered under
\* JOB_NAME and started
updateCron(jobs, reg, cronExp, intervalMins) ==
    LET stopped == stopCron(jobs, reg)
    IN  IF ~ValidCron(cronExp) \/ stopped.registry # 0
        THEN \* new CronJob throws, or addCronJob does: the name is taken
             [jobs |-> stopped.jobs, registry |-> stopped.registry,
              threw |-> TRUE]
        ELSE [jobs |-> Append(stopped.jobs,
                              [cron |-> cronExp, interval |-> intervalMins,
                               running |-> TRUE]),
              registry |-> Len(stopped.jobs) + 1,
              threw |-> FALSE]

\* a call of setupScheduler: up to the await of the configuration
CallSetupScheduler ==
    reconciles' = Append(reconciles, [pc |-> "reading", config |-> agentConfig,
                                      error |-> FALSE])

\* onModuleInit: the application starts
OnModuleInit ==
    /\ reconciles = <<>>
    /\ CallSetupScheduler
    /\ UNCHANGED <<agentConfig, cronJobs, registry, requests, fires, runVars,
                   pipelineVars, textVars, busVars>>

\* POST /agent/config on a started application, up to the await of
\* setupScheduler: the update of the rows that are active resolves.  With
\* an active row the row is patched and setupScheduler is called; with none
\* the store returns an error, the request fails and nothing else happens.
UpdateConfig(updates) ==
    /\ reconciles # <<>> /\ reconciles[1].pc = "done"
    /\ Len(requests) < MaxRequests
    /\ IF agentConfig.is_active
       THEN /\ Len(reconciles) < MaxReconciles
            /\ agentConfig' = Patch(agentConfig, updates)
            /\ CallSetupScheduler
            /\ requests' = Append(requests,
                    [updates |-> updates, error |-> FALSE,
                     reconcile |-> Len(reconciles) + 1])
       ELSE /\ requests' = Append(requests,
                    [updates |-> updates, error |-> TRUE, reconcile |-> 0])
            /\ UNCHANGED <<agentConfig, reconciles>>
    /\ UNCHANGED <<cronJobs, registry, fires, runVars, pipelineVars, textVars, busVars>>

\* the select of setupScheduler resolves: with the row as it is now, or
\* with an error, and then setupScheduler returns
ReadConfig(i) ==
    /\ reconciles[i].pc = "reading"
    /\ \/ reconciles' = [reconciles EXCEPT ![i] =
                            [pc |-> "read", config |-> agentConfig,
                             error |-> FALSE]]
       \/ reconciles' = [reconciles EXCEPT ![i] =
                            [pc |-> "done", config |-> @.config,
                             error |-> TRUE]]
    /\ UNCHANGED <<agentConfig, cronJobs, registry, requests, fires, runVars,
                   pipelineVars, textVars, busVars>>

\* setupScheduler goes on with the row it has read: an inactive
\* configuration stops the job, an active one replaces it; what updateCron
\* throws is caught and logged, and setupScheduler returns
ApplyConfig(i) ==
    /\ reconciles[i].pc = "read"
    /\ LET config == reconciles[i].config
           after == IF ~config.is_active THEN stopCron(cronJobs, registry)
                    ELSE updateCron(cronJobs, registry,
                                    CronExpression(IntervalMins(config)),
                                    IntervalMins(config))
       IN  /\ cronJobs' = after.jobs /\ registry' = after.registry
           /\ reconciles' = [reconciles EXCEPT ![i] =
                  [pc |-> "done", config |-> config,
                   error |-> config.is_active /\ after.threw]]
    /\ UNCHANGED <<agentConfig, requests, fires, runVars, pipelineVars,
                   textVars, busVars>>

\* ------------------------------------------------ AgentService: the runs

\* the values of CRON_SECRET ("": not set) and of the authorization header
\* of a request ("": none)
CronSecrets == {"", "s"}
Headers == {"", "Bearer s", "Bearer x"}

\* the time a timestamp is taken from
Now == clock

\* the row inserted at the start of a run
NewRun ==
    [status |-> "searching", logs |-> <<"Starting run...">>, topic |-> "",
     article_id |-> 0, completed_at |-> 0]

\* a call of executeAgentRun, suspended at the insert of its row: runId is
\* run.id, step the status updateRunStatus is called with, current the logs
\* it has read, topicPrompt the topic brainstormed; trigger is the request
\* that made the call (0: the callback of a timer)
NewExecution(trigger) ==
    [pc |-> "insertRun", trigger |-> trigger, runId |-> 0, step |-> "",
     current |-> <<>>, topicPrompt |-> ""]

\* the call is made: execution e runs the pipeline as run e
CallExecuteAgentRun(trigger) ==
    /\ Len(executions) < Cardinality(Runs)
    /\ executions' = Append(executions, NewExecution(trigger))

\* the header is the one CRON_SECRET asks for
HeaderMatches(secret, header) == secret = "" \/ header = "Bearer s"

\* the check of the header against CRON_SECRET: a mismatch is logged, the
\* request is served all the same
Authorized(secret, header) == TRUE

\* a running job fires: its callback is invoked and calls executeAgentRun
TimerFires(j) ==
    /\ cronJobs[j].running
    /\ fires < MaxFires
    /\ fires' = fires + 1
    /\ CallExecuteAgentRun(0)
    /\ UNCHANGED <<agentConfig, cronJobs, registry, reconciles, requests,
                   agentRuns, triggers, pipelineVars, textVars, busVars>>

\* POST /agent/trigger on a started application, up to the first await of
\* executeAgentRun
TriggerAgent(secret, header) ==
    /\ reconciles # <<>> /\ reconciles[1].pc = "done"
    /\ Len(executions) < Cardinality(Runs)
    /\ triggers' = Append(triggers, [secret |-> secret, header |-> header])
    /\ IF Authorized(secret, header)
       THEN CallExecuteAgentRun(Len(triggers) + 1)
       ELSE UNCHANGED executions
    /\ UNCHANGED <<agentConfig, cronJobs, registry, reconciles, requests,
                   fires, agentRuns, pipelineVars, textVars, busVars>>

\* what the steps of a run leave alone
RunFrame ==
    UNCHANGED <<cronJobs, registry, reconciles, requests, fires, triggers,
                textVars, busVars>>

\* the pipeline is left alone
NoPipeline ==
    UNCHANGED <<storeVars, pc, topicOf, result, aiSlug, category, seoData,
                articleContent, imagePrompts, idx, imageRecord, imageUrl,
                rewritten, component, log>>

\* the call of updateRunStatus(run.id, status, ...): up to the await of the
\* select of the logs
CallUpdateRunStatus(x, status) ==
    [x EXCEPT !.pc = "statusRead", !.step = status]

\* the log entry of each call of updateRunStatus
LogEntry(status) ==
    CASE status = "searching" -> "Brainstorming unique tech topic..."
      [] status = "generating" -> "Topic selected"
      [] status = "completed" -> "Article generated successfully."
      [] status = "failed" -> "Error"

\* the updates of updateRunStatus
StatusUpdates(x, articleId) ==
    LET base == [status |-> x.step, logs |-> Append(x.current, LogEntry(x.step))]
        withTopic ==
            IF x.step \in {"generating", "completed"}
            THEN [f \in DOMAIN base \cup {"topic"} |->
                     IF f = "topic" THEN x.topicPrompt ELSE base[f]]
            ELSE base
        withArticle ==
            IF x.step = "completed"
            THEN [f \in DOMAIN withTopic \cup {"article_id"} |->
                     IF f = "article_id" THEN articleId ELSE withTopic[f]]
            ELSE withTopic
    IN  IF x.step \in {"completed", "failed"}
        THEN [f \in DOMAIN withArticle \cup {"completed_at"} |->
                 IF f = "completed_at" THEN Now ELSE withArticle[f]]
        ELSE withArticle

\* the insert of the row resolves: with the row, or with an error, and then
\* executeAgentRun returns
InsertRun(e) ==
    /\ executions[e].pc = "insertRun"
    /\ \/ /\ NoFault
          /\ agentRuns' = Append(agentRuns, NewRun)
          /\ executions' = [executions EXCEPT ![e] =
                 CallUpdateRunStatus([@ EXCEPT !.runId = Len(agentRuns) + 1],
                                     "searching")]
       \/ /\ FaultAs(e, "agent:insertRun")
          /\ executions' = [executions EXCEPT ![e].pc = "done"]
          /\ UNCHANGED agentRuns
    /\ NoPipeline /\ RunFrame /\ UNCHANGED agentConfig

\* the select of the logs resolves: with the row, or with nothing
StatusRead(e) ==
    /\ executions[e].pc = "statusRead"
    /\ \/ /\ NoFault
          /\ executions' = [executions EXCEPT ![e] =
                 [@ EXCEPT !.pc = "statusWrite",
                           !.current = agentRuns[executions[e].runId].logs]]
       \/ /\ FaultAs(e, "agent:statusRead")
          /\ executions' = [executions EXCEPT ![e] =
                 [@ EXCEPT !.pc = "statusWrite", !.current = <<>>]]
    /\ NoPipeline /\ RunFrame /\ UNCHANGED <<agentConfig, agentRuns>>

\* the update of last_run_at has failed: the error is not looked at
ConfigUpdateCaught(x) == CallUpdateRunStatus(x, "failed")

ConfigUpdateFailed(x) == [x EXCEPT !.pc = "done"]

\* the update of the row resolves (an error is not looked at), and
\* executeAgentRun goes on up to its next await
StatusWrite(e) ==
    /\ executions[e].pc = "statusWrite"
    /\ LET x == executions[e]
       IN  /\ \/ /\ agentRuns' = [agentRuns EXCEPT ![x.runId] =
                         Patch(@, StatusUpdates(x, result[e].article.id))]
                 /\ UNCHANGED <<faultsLeft, failures>>
              \/ /\ FaultAs(e, "agent:statusWrite")
                 /\ UNCHANGED agentRuns
           /\ CASE x.step = "searching" ->
                     /\ executions' = [executions EXCEPT ![e].pc = "getTitles"]
                     /\ NoPipeline
                [] x.step = "generating" ->
                     /\ executions' = [executions EXCEPT ![e].pc = "generateArticle"]
                     /\ executePipeline(e, x.topicPrompt)
                [] x.step = "completed" ->
                     /\ executions' = [executions EXCEPT ![e].pc = "configUpdate"]
                     /\ NoPipeline
                [] x.step = "failed" ->
                     /\ executions' = [executions EXCEPT ![e].pc = "done"]
                     /\ NoPipeline
    /\ RunFrame /\ UNCHANGED agentConfig

\* brainstormTopic: getAllArticleTitles resolves, or throws
GetTitles(e) ==
    /\ executions[e].pc = "getTitles"
    /\ \/ /\ NoFault
          /\ executions' = [executions EXCEPT ![e].pc = "brainstorm"]
       \/ /\ FaultAs(e, "agent:getTitles")
          /\ executions' = [executions EXCEPT ![e] =
                 CallUpdateRunStatus(@, "failed")]
    /\ NoPipeline /\ RunFrame /\ UNCHANGED <<agentConfig, agentRuns>>

\* brainstormTopic: generateText resolves with a topic, or throws
Brainstorm(e) ==
    /\ executions[e].pc = "brainstorm"
    /\ \/ /\ NoFault
          /\ \E topic \in Topics :
                executions' = [executions EXCEPT ![e] =
                    CallUpdateRunStatus([@ EXCEPT !.topicPrompt = topic],
                                        "generating")]
       \/ /\ FaultAs(e, "agent:brainstorm")
          /\ executions' = [executions EXCEPT ![e] =
                 CallUpdateRunStatus(@, "failed")]
    /\ NoPipeline /\ RunFrame /\ UNCHANGED <<agentConfig, agentRuns>>

\* generateArticle resolves with the result of the pipeline, or rejects:
\* a result with an article completes the run, anything else fails it
ArticleGenerated(e) ==
    /\ executions[e].pc = "generateArticle"
    /\ pc[e] \in Ended
    /\ executions' = [executions EXCEPT ![e] =
          CallUpdateRunStatus(@,
              IF pc[e] = "returned" /\ result[e].article.id # 0
              THEN "completed" ELSE "failed")]
    /\ NoFault
    /\ NoPipeline /\ RunFrame /\ UNCHANGED <<agentConfig, agentRuns>>

\* the update of last_run_at on the active row resolves
ConfigUpdate(e) ==
    /\ executions[e].pc = "configUpdate"
    /\ \/ /\ NoFault
          /\ agentConfig' = IF agentConfig.is_active
                            THEN Patch(agentConfig, [last_run_at |-> Now])
                            ELSE agentConfig
          /\ executions' = [executions EXCEPT ![e].pc = "done"]
       \/ /\ FaultAs(e, "agent:configUpdate")
          /\ executions' = [executions EXCEPT ![e] = ConfigUpdateFailed(@)]
          /\ UNCHANGED agentConfig
    /\ NoPipeline /\ RunFrame /\ UNCHANGED agentRuns

\* one step of the execution e of executeAgentRun, its pipeline included
RunStep(e) ==
    \/ InsertRun(e) \/ StatusRead(e) \/ StatusWrite(e)
    \/ GetTitles(e) \/ Brainstorm(e)
    \/ PipelineStep(e)
    \/ ArticleGenerated(e) \/ ConfigUpdate(e)

AgentNext ==
    \/ OnModuleInit
    \/ \E updates \in ConfigUpdates : UpdateConfig(updates)
    \/ \E i \in DOMAIN reconciles : ReadConfig(i) \/ ApplyConfig(i)
    \/ \E j \in DOMAIN cronJobs : TimerFires(j)

SpecAgent == Init /\ [][AgentNext]_vars

\* the application starts, then one run at a time: by a timer or by a
\* request
RunNext ==
    \/ OnModuleInit
    \/ \E i \in DOMAIN reconciles : ReadConfig(i) \/ ApplyConfig(i)
    \/ /\ executions = <<>>
       /\ \/ \E j \in DOMAIN cronJobs : TimerFires(j)
          \/ \E secret \in CronSecrets, header \in Headers :
                TriggerAgent(secret, header)
    \/ \E e \in DOMAIN executions : RunStep(e)

SpecRun == Init /\ [][RunNext]_vars

\* a run triggered by a request and, while it is under way, a run started
\* by a timer; the environment injects no failure
OverlapNext ==
    /\ \/ OnModuleInit
       \/ \E i \in DOMAIN reconciles : ReadConfig(i) \/ ApplyConfig(i)
       \/ executions = <<>> /\ TriggerAgent("", "")
       \/ Len(executions) = 1 /\ \E j \in DOMAIN cronJobs : TimerFires(j)
       \/ \E e \in DOMAIN executions : RunStep(e)
    /\ faultsLeft' = faultsLeft

SpecOverlap == Init /\ [][OverlapNext]_vars

\* one run, triggered by a request or started by a timer, while requests
\* switch the configuration on and off; the environment injects no failure
SwitchNext ==
    /\ \/ OnModuleInit
       \/ \E i \in DOMAIN reconciles : ReadConfig(i) \/ ApplyConfig(i)
       \/ \E b \in BOOLEAN : UpdateConfig([is_active |-> b])
       \/ executions = <<>> /\ TriggerAgent("", "")
       \/ executions = <<>> /\ \E j \in DOMAIN cronJobs : TimerFires(j)
       \/ \E e \in DOMAIN executions : RunStep(e)
    /\ faultsLeft' = faultsLeft

SpecSwitch == Init /\ [][SwitchNext]_vars

\* --------------------------------- PipelineController: the stream of events

\* the calls of streamProgress the model follows
MaxSubscriptions == 2

\* the events the model follows
MaxEvents == 2

\* topics, as sequences of characters: of a request for the stream and of an
\* event
BusTopics ==
    {<<"R">>, <<"r", " ">>, <<" ", "r">>, <<"g">>, <<"r", "g">>}

\* String.prototype.toLowerCase and String.prototype.trim
toLowerCase(t) ==
    [i \in DOMAIN t |-> CASE t[i] = "R" -> "r" [] t[i] = "G" -> "g"
                           [] OTHER -> t[i]]

RECURSIVE trim(_)
trim(t) ==
    IF t = <<>> THEN t
    ELSE IF Head(t) = " " THEN trim(Tail(t))
    ELSE IF t[Len(t)] = " " THEN trim(SubSeq(t, 1, Len(t) - 1))
    ELSE t

\* a filter that compares the topics in lower case, untrimmed
MatchUntrimmed(eventTopic, topic) == toLowerCase(eventTopic) = toLowerCase(topic)

\* the filter of streamProgress
Match(eventTopic, topic) ==
    trim(toLowerCase(eventTopic)) = trim(toLowerCase(topic))

\* the acknowledgement of a connection, and the message an event is mapped to
ConnectedEvent == [kind |-> "connected", stage |-> "System", message |-> 0]

MessageOf(event) ==
    [kind |-> "event", stage |-> event.stage, message |-> event.message]

\* what a subscriber is given first
NoGreeting == <<>>

Greeting == <<ConnectedEvent>>

\* GET /pipeline/stream/:topic: streamProgress is called; it subscribes a
\* logging listener to the raw events and returns the observable
StreamProgress(topic) ==
    /\ Len(subscriptions) < MaxSubscriptions
    /\ subscriptions' = Append(subscriptions,
          [topic |-> topic, state |-> "called", delivered |-> <<>>,
           since |-> 0, until |-> 0])
    /\ listeners' = Append(listeners,
          [sub |-> Len(subscriptions) + 1, kind |-> "raw"])
    /\ UNCHANGED <<published, pipelineVars, textVars, agentVars>>

\* the events emitted so far that the filter of a topic lets through, as
\* messages
Replayed(topic) ==
    LET matching == SelectSeq(published, LAMBDA ev : Match(ev.topic, topic))
    IN  [i \in DOMAIN matching |-> MessageOf(matching[i])]

\* what fromEvent gives a new subscriber of the events emitted before: it
\* keeps none
Backlog(topic) == <<>>

\* the observable is subscribed to: the acknowledgement is delivered, then
\* the filtered events are subscribed to.  since and until are the numbers
\* of events emitted when the subscription connected and when it closed.
Subscribe(s) ==
    /\ subscriptions[s].state = "called"
    /\ subscriptions' = [subscriptions EXCEPT ![s] =
          [topic |-> @.topic, state |-> "connected",
           delivered |-> Greeting \o Backlog(@.topic),
           since |-> Len(published), until |-> 0]]
    /\ listeners' = Append(listeners, [sub |-> s, kind |-> "filtered"])
    /\ UNCHANGED <<published, pipelineVars, textVars, agentVars>>

\* the client disconnects: the teardown unsubscribes the filtered events
Teardown(s) ==
    /\ subscriptions[s].state = "connected"
    /\ subscriptions' = [subscriptions EXCEPT ![s].state = "closed",
                                              ![s].until = Len(published)]
    /\ listeners' = SelectSeq(listeners,
          LAMBDA l : ~(l.sub = s /\ l.kind = "filtered"))
    /\ UNCHANGED <<published, pipelineVars, textVars, agentVars>>

\* the first of the subscriptions only
FirstReceiver(event) ==
    LET all == {s \in DOMAIN subscriptions :
                   /\ \E i \in DOMAIN listeners :
                         listeners[i] = [sub |-> s, kind |-> "filtered"]
                   /\ Match(event.topic, subscriptions[s].topic)}
    IN  {s \in all : \A o \in all : s <= o}

\* the subscriptions an event is passed on to: those with a filtered
\* listener on the emitter whose filter lets the event through
Receivers(event) ==
    {s \in DOMAIN subscriptions :
        /\ \E i \in DOMAIN listeners :
              listeners[i] = [sub |-> s, kind |-> "filtered"]
        /\ Match(event.topic, subscriptions[s].topic)}

\* eventEmitter.emit('pipeline.log', event): every listener is called; a
\* filtered one passes the event on if the filter lets it through
EmitEvent(topic) ==
    /\ Len(published) < MaxEvents
    /\ LET event == [topic |-> topic, stage |-> "seoResearch",
                     message |-> Len(published) + 1]
       IN  /\ published' = Append(published, event)
           /\ subscriptions' =
                 [s \in DOMAIN subscriptions |->
                    IF s \in Receivers(event)
                    THEN [subscriptions[s] EXCEPT
                             !.delivered = Append(@, MessageOf(event))]
                    ELSE subscriptions[s]]
    /\ UNCHANGED <<listeners, pipelineVars, textVars, agentVars>>

BusNext ==
    \/ \E topic \in BusTopics : StreamProgress(topic)
    \/ \E s \in DOMAIN subscriptions : Subscribe(s) \/ Teardown(s)
    \/ \E topic \in BusTopics : EmitEvent(topic)

SpecBus == Init /\ [][BusNext]_vars

\* ------------------------------------------------------ specifications

\* POST /api/articles/generate: one run of the pipeline on its own
Generate == \E topic \in Topics : Start(1, topic)

Next == Generate \/ PipelineStep(1)

Spec == Init /\ [][Next]_vars

\* a run of the pipeline and publish requests for the articles of the store
NextPublish == Next \/ \E id \in 1..Len(articles) : Publish(id)

SpecPublish == Init /\ [][NextPublish]_vars

\* ------------------------------------------------- vocabulary of the claims

Has(seq, x) == \E i \in DOMAIN seq : seq[i] = x

Count(seq, x) == Cardinality({i \in DOMAIN seq : seq[i] = x})

\* the run has created its Content Record
Created(r) == result[r].article.id # 0

\* the Content Record of the run, as stored
Stored(r) == articles[result[r].article.id]

\* the awaited calls whose failure is a failure of the stage: it reaches the
\* catch of the stage
StageFailures(s) ==
    CASE s = "category" -> {"getAllCategories", "suggestCategory",
                            "getCategoryByName", "createCategory",
                            "updateArticleCategory"}
      [] s = "seoResearch" -> {"seoResearch", "seoUpdate"}
      [] s = "writing" -> {"writeArticle", "writeUpdate"}
      [] s = "humanizing" -> {"humanizeContent", "humanizeUpdate"}
      [] s = "visualGeneration" -> {"createArticleImage", "visualUpdate"}
      [] s = "interactive" -> {"generateInteractiveComponent", "createComponent"}
      [] s = "finalReview" -> {"finalReview", "finalUpdate"}

\* a call of the stage s failed in the run r
FailedStage(r, s) == \E i \in DOMAIN failures[r] : failures[r][i] \in StageFailures(s)

\* the entry of errors for a failed stage
ErrorOf(s) ==
    CASE s = "category" -> "Category assignment failed"
      [] s = "seoResearch" -> "SEO Research failed"
      [] s = "writing" -> "Writing failed"
      [] s = "humanizing" -> "Humanizing failed"
      [] s = "visualGeneration" -> "Visual generation failed"
      [] s = "interactive" -> "Interactive component failed"
      [] s = "finalReview" -> "Final review failed"

Stages == {StageNames[i] : i \in DOMAIN StageNames}

\* the stages after writing
LaterStages == {"humanizing", "visualGeneration", "interactive", "finalReview"}

\* the AI calls and store calls the run has issued, in order
Calls(r) == SelectSeq(log[r], LAMBDA e : e[1] # "emit")

\* the run has started the stage s: it has issued a call of it or published
\* an event tagged with it
Started(r, s) ==
    \E i \in DOMAIN log[r] :
        \/ log[r][i][1] = "emit" /\ log[r][i][2] = s
        \/ log[r][i][1] # "emit" /\ log[r][i][3] = s

\* the stages of a sequence of calls, a stage once for consecutive calls
RECURSIVE StagesOf(_)
StagesOf(calls) ==
    IF calls = <<>> THEN <<>>
    ELSE LET rest == StagesOf(Tail(calls))
         IN  IF rest # <<>> /\ Head(rest) = Head(calls)[3] THEN rest
             ELSE <<Head(calls)[3]>> \o rest

\* every part of the pipeline, in order
FullOrder ==
    <<"init", "category", "seoResearch", "writing", "humanizing",
      "visualGeneration", "interactive", "finalReview", "terminal">>

\* no call issued by the run belongs to a part of the pipeline after that of
\* the call `label`, the revert of the top-level catch apart
NothingAfter(r, label) ==
    \A i \in DOMAIN log[r] :
        \/ log[r][i][1] = "emit"
        \/ StageIdx(log[r][i][3]) <= StageIdx(CallOf(label)[3])
        \/ log[r][i] = CallOf("revertDraft")

\* ------------------------------------------------------------------ claims

\* C1 (as claimed): when executePipeline returns for a Content Record it
\* created, the stored status is one of review and draft, and it is review
\* if and only if no writing failure occurred during the run.
C1_AsClaimed ==
    \A r \in Runs :
        pc[r] = "returned" /\ Created(r) =>
            /\ Stored(r).status \in {"review", "draft"}
            /\ Stored(r).status = "review" <=> ~FailedStage(r, "writing")

\* C1 (amended): when executePipeline returns for a Content Record it
\* created, the stored status is one of review and draft; it is review if and
\* only if neither the writing stage nor the write of status review failed;
\* executePipeline rejects exactly when the write that reverts the status
\* fails, and the status is then still processing.
C1_StatusAtEnd ==
    \A r \in Runs :
        pc[r] \in Ended /\ Created(r) =>
            /\ pc[r] = "returned" => Stored(r).status \in {"review", "draft"}
            /\ Stored(r).status = "review" <=>
                  ~FailedStage(r, "writing") /\ ~Has(failures[r], "markReview")
            /\ pc[r] = "rejected" <=> Has(failures[r], "revertDraft")
            /\ pc[r] = "rejected" => Stored(r).status = "processing"

\* a run that returns with its record in draft although writing succeeded:
\* the write of status review failed
C1_Witness ==
    \E r \in Runs :
        /\ pc[r] = "returned" /\ Created(r)
        /\ Stored(r).status = "draft"
        /\ result[r].stages.writing
        /\ Has(failures[r], "markReview")

\* C2 (as claimed): when the writing stage fails, no later stage is started
\* (no AI call, no store write, no event of it), the stage results of the
\* later stages stay false, and the status of the record is reverted to draft.
C2_AsClaimed ==
    \A r \in Runs :
        FailedStage(r, "writing") =>
            /\ \A s \in LaterStages : ~Started(r, s) /\ ~result[r].stages[s]
            /\ pc[r] \in Ended => Stored(r).status = "draft"

\* C2 (amended): when the writing stage fails, no later stage is started, the
\* stage results of the later stages stay false, and the revert of the status
\* to draft is issued: the status is draft when the run returns, and still
\* processing when the revert itself fails and the run rejects.
C2_WritingAborts ==
    \A r \in Runs :
        FailedStage(r, "writing") =>
            /\ \A s \in LaterStages : ~Started(r, s) /\ ~result[r].stages[s]
            /\ Has(log[r], CallOf("revertDraft"))
            /\ pc[r] = "returned" => Stored(r).status = "draft"
            /\ pc[r] = "rejected" =>
                  Stored(r).status = "processing" /\ Has(failures[r], "revertDraft")

\* a run that returned after the update of the writing stage failed
C2_Witness ==
    \E r \in Runs :
        /\ pc[r] = "returned"
        /\ Has(failures[r], "writeUpdate")
        /\ Stored(r).status = "draft"

ResearchSucceeded(r) ==
    /\ ~FailedStage(r, "category")
    /\ ~FailedStage(r, "seoResearch")
    /\ result[r].stages.seoResearch

C5_AsClaimed ==
    \A r \in Runs :
        pc[r] = "returned" =>
            \A s \in Stages :
                Count(result[r].errors, ErrorOf(s)) =
                    IF FailedStage(r, s) THEN 1 ELSE 0

\* C6 (as claimed): executePipeline never rejects: it returns its result
\* whatever failed.
C6_AsClaimed == \A r \in Runs : pc[r] # "rejected"

\* the updateArticle after SEO research, humanizing, visual generation and
\* final review, and the creation of an asset record
BookkeepingWrites ==
    {"seoUpdate", "humanizeUpdate", "visualUpdate", "finalUpdate",
     "createArticleImage"}

\* C7 (as claimed): a store error on the updateArticle after SEO research,
\* humanizing, visual generation or final review, or on the creation of an
\* asset record, aborts the run: no later stage is executed after it.
C7_AsClaimed ==
    \A r \in Runs :
        \A i \in DOMAIN failures[r] :
            failures[r][i] \in BookkeepingWrites => NothingAfter(r, failures[r][i])

\* C7 (amended): a store error on createArticle, on the updateArticle of the
\* writing stage or on the write of status review reaches the top-level catch
\* and aborts the run: no later stage is executed after it.  A store error on
\* the updateArticle after SEO research, humanizing, visual generation or
\* final review, or on the creation of an asset record, is caught by its
\* stage: the stage's entry is added to errors and, unless the writing stage
\* fails, the run goes on through every later stage to the write of status
\* review.
C7_StoreErrors ==
    \A r \in Runs :
        \A i \in DOMAIN failures[r] :
            /\ failures[r][i] \in {"createArticle", "writeUpdate", "markReview"} =>
                  /\ NothingAfter(r, failures[r][i])
                  /\ pc[r] \in {"revertDraft", "returned", "rejected"}
            /\ failures[r][i] \in BookkeepingWrites =>
                  /\ Has(result[r].errors, ErrorOf(CallOf(failures[r][i])[3]))
                  /\ pc[r] \in Ended /\ ~FailedStage(r, "writing") =>
                        /\ StagesOf(Calls(r)) = FullOrder
                        /\ Has(log[r], CallOf("markReview"))

\* a run that returned in review after the updateArticle of the SEO research
\* and the creation of an asset record failed
C7_Witness ==
    \E r \in Runs :
        /\ pc[r] = "returned"
        /\ failures[r] = <<"seoUpdate", "createArticleImage">>
        /\ Stored(r).status = "review"

C9_AsClaimed ==
    [][\A id \in 1..Len(articles) :
          articles[id].status = "published" => articles'[id].status = "published"]_vars

\* C10: the calls of one run are issued in the order of the stages: no call
\* of a stage is issued after a call of a later stage.
C10_Sequential ==
    \A r \in Runs :
        \A i, j \in DOMAIN log[r] :
            i < j /\ log[r][i][1] # "emit" /\ log[r][j][1] # "emit" =>
                StageIdx(log[r][i][3]) <= StageIdx(log[r][j][3])

\* a run that returned after issuing the calls of every stage
C10_Witness ==
    \E r \in Runs :
        /\ pc[r] = "returned"
        /\ StagesOf(Calls(r)) = FullOrder
        /\ Len(Calls(r)) > 20

\* the writing stage of the run has been invoked: seoData holds what it was
\* invoked with
WritingInvoked(r) == Has(log[r], CallOf("writeArticle"))

\* C11 (as claimed): whenever the SEO research stage fails, the writing stage
\* is invoked with the keyword list [topic] and the outline Introduction /
\* Main Content / Conclusion; in every run the writing stage receives a
\* non-empty outline and a non-empty keyword list.
C11_AsClaimed ==
    \A r \in Runs :
        WritingInvoked(r) =>
            /\ FailedStage(r, "seoResearch") =>
                  /\ seoData[r].keywords = <<topicOf[r]>>
                  /\ seoData[r].h2Structure =
                        <<[h2 |-> "Introduction", h3s |-> <<>>],
                          [h2 |-> "Main Content", h3s |-> <<>>],
                          [h2 |-> "Conclusion", h3s |-> <<>>]>>
            /\ seoData[r].keywords # <<>>
            /\ seoData[r].h2Structure # <<>>

\* the body of the run's Content Record, as stored
StoredBody(r) == Stored(r).content_markdown

\* the body the run works on, handed from stage to stage
WorkingBody(r) == articleContent[r].content

\* C12 (as claimed): a step of a body-rewriting stage (humanizing, final
\* review) that has failed leaves the body unchanged: neither the stored body
\* of the Content Record nor the body handed to the next stage changes.
C12_AsClaimed ==
    [][\A r \in Runs :
          \/ pc[r] \in {"humanizeContent", "humanizeUpdate"}
                /\ FailedStage(r, "humanizing")'
          \/ pc[r] \in {"finalReview", "finalUpdate"}
                /\ FailedStage(r, "finalReview")'
          => /\ StoredBody(r)' = StoredBody(r)
             /\ WorkingBody(r)' = WorkingBody(r)]_vars

\* the document holds a placeholder token
HasPlaceholder(c) == \E i \in DOMAIN c : c[i] \in Placeholders

\* the run is past its visual-generation stage
AfterVisual(r) == Started(r, "interactive")

\* C13 (as claimed): after the visual-generation stage of a run, neither the
\* body handed to the later stages nor the stored body holds a placeholder
\* token.
C13_AsClaimed ==
    \A r \in Runs :
        AfterVisual(r) =>
            ~HasPlaceholder(WorkingBody(r)) /\ ~HasPlaceholder(StoredBody(r))

\* the number of calls of `label` the run has issued
Issued(r, label) == Count(log[r], CallOf(label))

\* the number of image generations the run has issued for placeholders: the
\* generateImage calls after the event of the visual stage (the one before
\* it is the thumbnail's)
PlaceholderGenerations(r) ==
    Cardinality({i \in DOMAIN log[r] :
        /\ log[r][i] = CallOf("generateImage")
        /\ \E j \in 1..(i - 1) :
              log[r][j] = Emit("visualGeneration", "visualGeneration")})

\* the Asset Records of the run's Content Record, in order of creation
AssetRecords(r) ==
    SelectSeq(images, LAMBDA row : row.article_id = result[r].article.id)

\* C14: the visual-generation stage of a run processes at most the first 3
\* extracted placeholders, in order of appearance: the run issues at most 3
\* createArticleImage calls and at most 3 image generations for placeholders,
\* and its k-th Asset Record is at position k <= 3 with the prompt of the
\* k-th extracted placeholder, whatever the number of placeholders.
C14_AtMostThree ==
    \A r \in Runs :
        /\ Issued(r, "createArticleImage") <= 3
        /\ PlaceholderGenerations(r) <= 3
        /\ Created(r) =>
              /\ Len(AssetRecords(r)) <= 3
              /\ \A k \in DOMAIN AssetRecords(r) :
                    /\ AssetRecords(r)[k].position = k
                    /\ k <= Len(imagePrompts[r])
                    /\ AssetRecords(r)[k].prompt = imagePrompts[r][k].prompt

\* a run past its visual stage whose body held 4 placeholders: 3 Asset
\* Records, 3 image generations
C14_Witness ==
    \E r \in Runs :
        /\ AfterVisual(r)
        /\ Len(imagePrompts[r]) = 4
        /\ Len(AssetRecords(r)) = 3
        /\ PlaceholderGenerations(r) = 3

\* the placeholder tokens of a document, in order of appearance
TokensOf(c) == SelectSeq(c, LAMBDA t : t \in Placeholders)

\* the positions of the placeholder tokens of a document, in order
TokenPositions(c) ==
    SelectSeq([i \in 1..Len(c) |-> i], LAMBDA i : c[i] \in Placeholders)

\* no placeholder token appears twice in the document
DistinctTokens(c) ==
    \A i, j \in DOMAIN c : c[i] \in Placeholders /\ c[i] = c[j] => i = j

\* C15 (as claimed): once every placeholder extracted from a document of
\* distinct placeholder tokens is substituted by its image embed, the
\* document holds no placeholder token.
C15_AsClaimed ==
    /\ textPc = "extracted"
    /\ substituted = Len(extracted)
    /\ DistinctTokens(docInput)
    => ~HasPlaceholder(doc)

\* the annotation of the placeholder at position p of c: the text of the
\* comment  <!-- Image: ... -->  that follows it, <<>> if there is none
Annotation(c, p) ==
    LET m == CommentMatch(c, p + 1)
        k == SkipWs(c, m.from)
    IN  IF m.ok /\ k < m.end - 2 /\ c[k] = "Image:"
        THEN Trim(Slice(c, k + 1, m.end - 2))
        ELSE <<>>

\* the prompt the claim gives the placeholder at position p of c
ClaimedPrompt(c, p) ==
    LET colon == ColonMatch(c, p + 1, {"NL", "<"})
    IN  IF colon.ok THEN Trim(Slice(c, colon.from, colon.end))
        ELSE IF Annotation(c, p) # <<>> THEN Annotation(c, p)
        ELSE HeadingPrompt(c, p)

\* C16 (as claimed): extractImagePrompts returns one entry per placeholder
\* token, in order of appearance; the prompt of an entry is the text after
\* the colon that follows the token or the annotation of the comment that
\* follows it, when there is one, else 'Illustration for:' with the nearest
\* heading before it, else the numbered fallback.
C16_AsClaimed ==
    textPc = "extracted" =>
        /\ Len(extracted) = Len(TokensOf(docInput))
        /\ \A i \in DOMAIN extracted :
              /\ i <= Len(TokensOf(docInput))
              /\ extracted[i].placeholder = TokensOf(docInput)[i]
              /\ extracted[i].prompt =
                    ClaimedPrompt(docInput, TokenPositions(docInput)[i])

\* C17 (as claimed): the substitution of the image embed for a placeholder
\* token leaves every occurrence of every other placeholder token in the
\* document.
C17_AsClaimed ==
    [][textPc = "extracted" /\ substituted' = substituted + 1 =>
          \A j \in Placeholders \ {extracted[substituted + 1].placeholder} :
              Count(doc', j) = Count(doc, j)]_vars

\* C18 (as claimed): the cleanup pass applied to a document it has cleaned
\* returns the document unchanged.
C18_AsClaimed ==
    [][textPc = "cleaned" /\ textPc' = "recleaned" => doc' = doc]_vars

\* the jobs whose timer is armed
Armed == {j \in DOMAIN cronJobs : cronJobs[j].running}

\* C19: whatever the calls of setupScheduler, the configuration updates and
\* the firings of timers, and however they interleave, at most one timer is
\* armed, it is the job registered under the fixed name, and a step that
\* arms a new timer disarms the one armed before.
C19_OneTimer ==
    /\ Cardinality(Armed) <= 1
    /\ Armed = IF registry = 0 THEN {} ELSE {registry}

\* a second job is armed after the first was disarmed
C19_Witness ==
    /\ Len(cronJobs) >= 2
    /\ Cardinality(Armed) = 1
    /\ ~cronJobs[1].running

\* the job fires exactly every `period` minutes: over two days, at the
\* minutes that are multiples of the period and at no other
FiresEvery(cronExp, period) ==
    \A t \in 0..(2 * 1440 - 1) : FiresAt(cronExp, t % 1440) <=> t % period = 0

\* C20 (as claimed): a timer armed for an interval of N minutes fires every
\* N minutes when N is under 60, and every floor(N/60) hours when N is 60 or
\* more.
C20_AsClaimed ==
    \A j \in Armed :
        LET N == cronJobs[j].interval
        IN  FiresEvery(cronJobs[j].cron,
                       IF N < 60 THEN N ELSE 60 * (N \div 60))

\* the jobs of a list whose timer is armed
ArmedIn(jobs) == {j \in DOMAIN jobs : jobs[j].running}

\* the call i of setupScheduler returns in this step
Returns(i) == reconciles[i].pc # "done" /\ reconciles'[i].pc = "done"

\* C21: a call of setupScheduler that has read a configuration with
\* is_active false returns with no timer armed and no job registered,
\* whatever was armed when it was called.
C21_InactiveDisarms ==
    [][\A i \in DOMAIN reconciles :
           (Returns(i) /\ reconciles[i].pc = "read"
                /\ ~reconciles[i].config.is_active)
               => ArmedIn(cronJobs') = {} /\ registry' = 0]_vars

\* a timer was armed, and a call that has read an inactive configuration
\* has returned with none armed
C21_Witness ==
    /\ cronJobs # <<>>
    /\ Armed = {}
    /\ \E i \in DOMAIN reconciles :
           /\ reconciles[i].pc = "done" /\ ~reconciles[i].error
           /\ ~reconciles[i].config.is_active
           /\ \A k \in DOMAIN reconciles : k # i => reconciles[k].pc = "done"

\* C22 (as claimed): a call of setupScheduler that fails (the configuration
\* cannot be loaded, or arming the new timer throws) returns to its caller
\* with the jobs and the registry as they were: the timer armed before is
\* still armed.
C22_AsClaimed ==
    [][\A i \in DOMAIN reconciles :
           (Returns(i) /\ reconciles'[i].error)
               => cronJobs' = cronJobs /\ registry' = registry]_vars

\* the request q of POST /agent/config ends in this step: refused by the
\* store, or with the return of the call of setupScheduler it awaits
RequestEnds(q) ==
    IF q > Len(requests)
    THEN requests'[q].error
    ELSE /\ ~requests[q].error
         /\ Returns(requests[q].reconcile)
         /\ ~reconciles'[requests[q].reconcile].error

\* no other call of setupScheduler is under way
Alone(q) ==
    \A i \in DOMAIN reconciles :
        reconciles[i].pc = "done" \/ (q <= Len(requests) /\ i = requests[q].reconcile)

\* C23 (as claimed): whatever the configuration was, when a request POST
\* /agent/config ends (no other one under way, no failure in its
\* reconcile), the configuration carries its updates, a timer for the
\* interval of the configuration is armed if the configuration is active,
\* and no timer is armed if it is inactive.
C23_AsClaimed ==
    [][\A q \in DOMAIN requests' :
           (RequestEnds(q) /\ Alone(q))
               => /\ \A f \in DOMAIN requests'[q].updates :
                         agentConfig'[f] = requests'[q].updates[f]
                  /\ IF agentConfig'.is_active
                     THEN \E j \in ArmedIn(cronJobs') :
                              cronJobs'[j].interval = IntervalMins(agentConfig')
                     ELSE ArmedIn(cronJobs') = {}]_vars

\* the log a is the beginning of the log b
IsPrefix(a, b) == Len(a) <= Len(b) /\ SubSeq(b, 1, Len(a)) = a

\* C25 (as claimed): whatever a step does to a Run Record, the log the
\* record had is the beginning of the log it has afterwards, also when the
\* select of the logs before the update has returned nothing.
C25_AsClaimed ==
    [][\A k \in DOMAIN agentRuns :
           IsPrefix(agentRuns[k].logs, agentRuns'[k].logs)]_vars

\* the statuses a run ends with
Terminal == {"completed", "failed"}

\* C26: a Run Record is inserted with status searching, and a record whose
\* status is completed or failed is left as it is by every later step:
\* status, log, topic, article reference and completion timestamp.
C26_TerminalFrozen ==
    [][/\ Len(agentRuns') >= Len(agentRuns)
       /\ \A k \in DOMAIN agentRuns' :
             IF k > Len(agentRuns)
             THEN agentRuns'[k].status = "searching"
             ELSE agentRuns[k].status \in Terminal
                      => agentRuns'[k] = agentRuns[k]]_vars

\* a run has completed its record and has gone on: the update of
\* last_run_at after it has failed, and the run has returned
C26_Witness ==
    \E e \in DOMAIN executions :
        /\ executions[e].pc = "done"
        /\ executions[e].runId # 0
        /\ agentRuns[executions[e].runId].status = "completed"
        /\ Has(failures[e], "agent:configUpdate")

\* C27: a request POST /agent/trigger, whatever its authorization header
\* and whether CRON_SECRET is set, makes the call of executeAgentRun that
\* the callback of a timer makes, and leaves the jobs and the registry as
\* they are.
C27_TriggerRuns ==
    [][Len(triggers') > Len(triggers)
          => /\ cronJobs' = cronJobs /\ registry' = registry
             /\ Len(executions') = Len(executions) + 1
             /\ executions'[Len(executions')] =
                   [NewExecution(0) EXCEPT !.trigger = Len(triggers')]]_vars

\* with CRON_SECRET set, a request with another header, or with none, has
\* run to the end and completed its Run Record, a timer being armed
C27_Witness ==
    \E e \in DOMAIN executions :
        /\ executions[e].trigger # 0
        /\ triggers[executions[e].trigger].secret = "s"
        /\ triggers[executions[e].trigger].header # "Bearer s"
        /\ executions[e].pc = "done"
        /\ executions[e].runId # 0
        /\ agentRuns[executions[e].runId].status = "completed"
        /\ Armed # {}

\* the run has inserted a row into the table of categories
WroteCategory(r) ==
    /\ Has(log[r], CallOf("createCategory"))
    /\ pc[r] # "createCategory"
    /\ ~Has(failures[r], "createCategory")

\* C24 (as claimed): the overlapping runs have each their own Run Record and
\* their own Content Record, and apart from last_run_at of the
\* configuration no store location is written by both: in particular not
\* the table of categories.
C24_AsClaimed ==
    /\ \A e1, e2 \in DOMAIN executions :
          e1 # e2 =>
              /\ executions[e1].runId # 0
                     => executions[e1].runId # executions[e2].runId
              /\ Created(e1) => result[e1].article.id # result[e2].article.id
    /\ ~(\A r \in Runs : WroteCategory(r))

\* the topic with the blanks at its ends removed and its letters folded
Normalized(t) == toLowerCase(trim(t))

\* C28: an event that is emitted is passed on to a connected subscriber, as
\* one more message, exactly when the topic of the event and the topic of
\* the subscriber are equal once trimmed and case-folded; otherwise the
\* subscriber is given nothing.
C28_ExactMatch ==
    [][Len(published') > Len(published)
          => \A s \in DOMAIN subscriptions :
                 LET event == published'[Len(published')]
                     sub == subscriptions[s]
                 IN  IF /\ sub.state = "connected"
                        /\ Normalized(event.topic) = Normalized(sub.topic)
                     THEN subscriptions'[s].delivered =
                              Append(sub.delivered, MessageOf(event))
                     ELSE subscriptions'[s].delivered = sub.delivered]_vars

\* a subscriber to "R" has been given the event of topic "r " and not the
\* events of topics "g" and "rg"
C28_Witness ==
    \E s \in DOMAIN subscriptions :
        /\ subscriptions[s].topic = <<"R">>
        /\ subscriptions[s].state = "connected"
        /\ Len(published) = 2
        /\ published[1].topic = <<"r", " ">>
        /\ published[2].topic \in {<<"g">>, <<"r", "g">>}
        /\ subscriptions[s].delivered = <<ConnectedEvent, MessageOf(published[1])>>

\* C29: a subscription that has connected was given the acknowledgement of
\* stage 'System' first, and no other acknowledgement after it.
C29_AckFirst ==
    \A s \in DOMAIN subscriptions :
        LET d == subscriptions[s].delivered
        IN  /\ subscriptions[s].state = "called" => d = <<>>
            /\ subscriptions[s].state # "called" =>
                  /\ d # <<>>
                  /\ d[1].kind = "connected" /\ d[1].stage = "System"
                  /\ \A i \in 2..Len(d) : d[i].kind = "event"

\* a subscriber has been given the acknowledgement and then an event
C29_Witness ==
    \E s \in DOMAIN subscriptions :
        /\ Len(subscriptions[s].delivered) >= 2
        /\ subscriptions[s].delivered[1] = ConnectedEvent

\* C30 (as claimed): when a subscription is torn down, no listener it has
\* registered is left on the emitter, and the other subscriptions are as
\* they were.
C30_AsClaimed ==
    [][\A s \in DOMAIN subscriptions :
           (subscriptions[s].state = "connected"
                /\ subscriptions'[s].state = "closed")
               => /\ \A i \in DOMAIN listeners' : listeners'[i].sub # s
                  /\ \A o \in DOMAIN subscriptions :
                        o # s => subscriptions'[o] = subscriptions[o]]_vars

\* C31: whatever the order of the calls, the connections, the teardowns and
\* the events, a subscription is given no event emitted before it connected:
\* every event message it holds was emitted after.
C31_NoReplay ==
    \A s \in DOMAIN subscriptions :
        \A i \in DOMAIN subscriptions[s].delivered :
            LET m == subscriptions[s].delivered[i]
            IN  m.kind = "event" => m.message > subscriptions[s].since

\* a subscription has connected after an event its filter lets through, and
\* was given the next such event only
C31_Witness ==
    \E s \in DOMAIN subscriptions :
        /\ subscriptions[s].since = 1
        /\ Len(published) = 2
        /\ Match(published[1].topic, subscriptions[s].topic)
        /\ subscriptions[s].delivered = <<ConnectedEvent, MessageOf(published[2])>>

\* the messages of the events k+1 .. n emitted that are of the topic
RECURSIVE MatchingBetween(_, _, _)
MatchingBetween(topic, k, n) ==
    IF k >= n THEN <<>>
    ELSE (IF Normalized(published[k + 1].topic) = Normalized(topic)
          THEN <<MessageOf(published[k + 1])>> ELSE <<>>)
         \o MatchingBetween(topic, k + 1, n)

\* C32: every subscription that has connected holds its own
\* acknowledgement followed by the events of its topic emitted while it was
\* connected, all of them and in order, and nothing else, whatever the
\* other subscriptions and their topics.
C32_Independent ==
    \A s \in DOMAIN subscriptions :
        LET sub == subscriptions[s]
        IN  sub.state # "called" =>
                sub.delivered =
                    <<ConnectedEvent>> \o
                    MatchingBetween(sub.topic, sub.since,
                                    IF sub.state = "closed" THEN sub.until
                                    ELSE Len(published))

\* two subscriptions to one topic are connected and hold each the
\* acknowledgement and the same event
C32_Witness ==
    /\ Len(subscriptions) = 2
    /\ \A s \in DOMAIN subscriptions :
          /\ subscriptions[s].state = "connected"
          /\ Len(subscriptions[s].delivered) = 2
    /\ subscriptions[1].delivered = subscriptions[2].delivered
    /\ subscriptions[1].topic # subscriptions[2].topic

\* C33: an Asset Record is created as createArticleImage resolves, with the
\* ordinal position of its placeholder and no storage reference, and the
\* generation of its image is attempted only then; the storage reference of
\* a record changes only as updateImageUrl resolves for that record, after
\* the upload of its image succeeded, from none to the address of the
\* upload; so it stays none when no image was generated or the upload
\* failed.  No record is removed.
C33_RecordFirst ==
    [][/\ Len(images') >= Len(images)
       /\ Len(images') > Len(images) =>
             /\ Len(images') = Len(images) + 1
             /\ pc[1] = "createArticleImage" /\ pc'[1] = "generateImage"
             /\ images'[Len(images')].storage_url = <<>>
             /\ images'[Len(images')].position = idx[1] + 1
             /\ imageRecord'[1] = Len(images')
       /\ (pc'[1] = "generateImage" /\ pc[1] # "generateImage") =>
             Len(images') > Len(images)
       /\ \A k \in DOMAIN images :
             images'[k].storage_url # images[k].storage_url =>
                 /\ pc[1] = "updateImageUrl"
                 /\ k = imageRecord[1]
                 /\ images[k].position = idx[1] + 1
                 /\ images[k].storage_url = <<>>
                 /\ Has(log[1], CallOf("uploadImage"))
                 /\ failures' = failures
                 /\ images'[k].storage_url =
                        PublicUrl(result[1].article.id,
                                  ImageFilename(idx[1] + 1))]_vars

\* the visual stage is over: the first record has the address of its stored
\* image, the second, whose upload failed, has none
C33_Witness ==
    /\ Len(images) >= 2
    /\ images[1].storage_url # <<>>
    /\ images[2].storage_url = <<>>
    /\ Has(failures[1], "uploadImage")
    /\ pc[1] = "visualUpdate"

\* the lines of a document, the line ends left out
RECURSIVE LinesOf(_, _)
LinesOf(c, line) ==
    IF c = <<>> THEN <<line>>
    ELSE IF Head(c) = "NL" THEN <<line>> \o LinesOf(Tail(c), <<>>)
    ELSE LinesOf(Tail(c), Append(line, Head(c)))

DocLines(c) == LinesOf(c, <<>>)

\* the lines of a document that hold text and no placeholder token
PlainLines(c) ==
    SelectSeq(DocLines(c),
              LAMBDA l : l # <<>> /\ \A i \in DOMAIN l : l[i] \notin Placeholders)

\* C34 (as claimed): the cleanup pass removes placeholder tokens with the
\* text after their colon or their comment and nothing else: every line of
\* the document that holds no placeholder token (a heading, text on the line
\* after a placeholder, a substituted image embed) is a line of the cleaned
\* document.
C34_AsClaimed ==
    [][textPc' = "cleaned" /\ textPc \in {"input", "extracted"} =>
          LET plain == PlainLines(doc)
          IN  \A i \in DOMAIN plain : Has(DocLines(doc'), plain[i])]_vars

\* the stages that publish a Progress Event of their own
EventStages ==
    {"seoResearch", "writing", "humanizing", "visualGeneration",
     "interactive", "finalReview"}

\* C35 (as claimed): before an AI call of one of the stages SEO research,
\* writing, humanizing, visual generation, interactive component and final
\* review, the run has published a Progress Event tagged with that stage;
\* and the events of the run are in the order of the stages.
C35_AsClaimed ==
    /\ \A i \in DOMAIN log[1] :
          log[1][i][1] = "ai" /\ log[1][i][3] \in EventStages =>
              \E j \in 1..(i - 1) :
                  log[1][j][1] = "emit" /\ log[1][j][2] = log[1][i][3]
    /\ \A i, j \in DOMAIN log[1] :
          i < j /\ log[1][i][1] = "emit" /\ log[1][j][1] = "emit" =>
              StageIdx(log[1][i][2]) <= StageIdx(log[1][j][2])

\* C36 (as claimed): a Run Record has status completed only if the pipeline
\* of its run has left the Content Record in status review; the record of a
\* run whose pipeline reverted the Content Record to draft after a failure
\* of the writing stage has status failed once the run has returned.
C36_AsClaimed ==
    \A e \in DOMAIN executions :
        executions[e].runId # 0 =>
            LET run == agentRuns[executions[e].runId]
                id == result[e].article.id
            IN  /\ run.status = "completed" =>
                      id # 0 /\ articles[id].status = "review"
                /\ (/\ executions[e].pc = "done"
                    /\ pc[e] = "returned"
                    /\ id # 0
                    /\ articles[id].status = "draft") =>
                      run.status = "failed"

\* C37 (as claimed): however the calls of setupScheduler interleave with
\* each other and with the configuration updates, once every call has
\* returned, none with an error, the timer is the one of the stored
\* configuration: armed for its interval if it is active, none if it is
\* inactive.
C37_AsClaimed ==
    (/\ reconciles # <<>>
     /\ \A i \in DOMAIN reconciles :
           reconciles[i].pc = "done" /\ ~reconciles[i].error)
        => IF agentConfig.is_active
           THEN \E j \in Armed :
                    cronJobs[j].interval = IntervalMins(agentConfig)
           ELSE Armed = {}

\* C38 (as claimed): whatever the interleaving of two overlapping runs that
\* were suggested the same category, the table of categories has at most
\* one row of that name, letter case apart, and once both runs have
\* attached their Content Record it is to the same row.
C38_AsClaimed ==
    /\ Cardinality(RowsNamed(SuggestedCategory)) <= 1
    /\ \A r1, r2 \in Runs :
          (/\ Created(r1) /\ Created(r2)
           /\ category[r1].name = category[r2].name
           /\ Stored(r1).category_id # 0
           /\ Stored(r2).category_id # 0)
              => Stored(r1).category_id = Stored(r2).category_id

\* C39 (as claimed): the image of an entry that is substituted is embedded
\* in the document afterwards, also when the placeholder token of the entry
\* is the token of an entry substituted before it, among the first three
\* entries extracted.
C39_AsClaimed ==
    [][(/\ textPc = "extracted"
        /\ substituted' = substituted + 1
        /\ substituted' <= MaxImages
        /\ \E j \in 1..substituted :
              extracted[j].placeholder = extracted[substituted'].placeholder)
          => Has(doc', ImageMarkdown(substituted')[4])]_vars

\* the run of the execution e has returned with its Run Record completed
Completed(e) ==
    /\ executions[e].pc = "done"
    /\ executions[e].runId # 0
    /\ agentRuns[executions[e].runId].status = "completed"

\* C40 (as claimed): once a run has returned with its Run Record completed,
\* whether a timer or a request started it and whatever is_active is,
\* last_run_at of the configuration carries the time of the run; only the
\* step of a completed run that follows the write of its status changes
\* last_run_at; and no step of a run changes the interval or is_active.
C40_AsClaimed ==
    [][/\ \A e \in DOMAIN executions :
             ~Completed(e) /\ Completed(e)' => agentConfig'.last_run_at = Now
       /\ agentConfig'.last_run_at # agentConfig.last_run_at =>
             \E e \in DOMAIN executions :
                 /\ executions[e].pc = "configUpdate"
                 /\ agentRuns[executions[e].runId].status = "completed"
       /\ requests' = requests =>
             /\ agentConfig'.interval_minutes = agentConfig.interval_minutes
             /\ agentConfig'.is_active = agentConfig.is_active]_vars

====
